---------------------------- MODULE Spec2Model ----------------------------
(***************************************************************************)
(* Weekly report aggregation of the diary service                          *)
(* (app/services/report_service.py, class ReportAnalysisService).          *)
(*                                                                         *)
(* Numbers.  Scores are Python floats.  They are held here in fixed point, *)
(* in thousandths of a point (7.5 is 7500), and every score the model      *)
(* draws is a multiple of 1/8 point, so that each score, each partial sum  *)
(* and each count is an exactly representable binary64 value and the mean  *)
(* sum/len is the double nearest to the exact quotient.  round(x, 1) and   *)
(* the sort key frequency * abs(average_score - 5.0) are computed as       *)
(* binary64 computes them: the key is NOT the exact product (for example   *)
(* 2 * abs(5.1 - 5.0) = 0.1999999999999993 but                             *)
(* 1 * abs(5.2 - 5.0) = 0.20000000000000018).  A binary64 value is held as *)
(* three limbs <<x2, x1, x0>> of 20 bits, value                            *)
(* (x2 * 2^40 + x1 * 2^20 + x0) / 2^56, because TLC integers are 32 bit.   *)
(***************************************************************************)
EXTENDS Integers, Sequences, FiniteSets, TLC

\* ReportAnalysisService.SCORE_THRESHOLD = 5.0, in thousandths.
SCORE_THRESHOLD == 5000

(***************************************************************************)
(* binary64 arithmetic                                                     *)
(***************************************************************************)
Limb == 2^20

RECURSIVE BitLen(_)
BitLen(n) == IF n = 0 THEN 0 ELSE 1 + BitLen(n \div 2)

\* Carry propagation: every limb but the highest back into 0 .. Limb-1.
Norm(x) ==
    LET x1 == x[2] + (x[3] \div Limb)
    IN  <<x[1] + (x1 \div Limb), x1 % Limb, x[3] % Limb>>

\* Round to 53 significant bits, ties to even; sticky: bits below x0 are not
\* all zero.  Values here are >= 2^-16, so x[1] > 0 unless the value is 0.
RoundSig(x, sticky) ==
    IF x[1] = 0 THEN x
    ELSE LET drop == 40 + BitLen(x[1]) - 53
         IN  IF drop <= 0 THEN x
             ELSE LET p    == 2^drop
                      rem  == x[3] % p
                      q    == x[3] \div p
                      up   == \/ 2 * rem > p
                              \/ 2 * rem = p /\ (sticky \/ q % 2 = 1)
                  IN  Norm(<<x[1], x[2], (q + (IF up THEN 1 ELSE 0)) * p>>)

\* The double nearest to a/10 (a float literal, or the result of round(x, 1)),
\* for 10 <= a: long division of a * 2^56 by 10.
FromTenths(a) ==
    LET n2 == a * 2^16
        r2 == n2 % 10
        n1 == r2 * Limb
        r1 == n1 % 10
        n0 == r1 * Limb
    IN  RoundSig(<<n2 \div 10, n1 \div 10, n0 \div 10>>, n0 % 10 # 0)

DoubleLess(x, y) ==
    \/ x[1] < y[1]
    \/ x[1] = y[1] /\ x[2] < y[2]
    \/ x[1] = y[1] /\ x[2] = y[2] /\ x[3] < y[3]

\* abs(x - y) in binary64.
AbsDiff(x, y) ==
    LET hi == IF DoubleLess(x, y) THEN y ELSE x
        lo == IF DoubleLess(x, y) THEN x ELSE y
        b0 == IF hi[3] < lo[3] THEN 1 ELSE 0
        d0 == hi[3] - lo[3] + b0 * Limb
        b1 == IF hi[2] - b0 < lo[2] THEN 1 ELSE 0
        d1 == hi[2] - b0 - lo[2] + b1 * Limb
    IN  RoundSig(<<hi[1] - lo[1] - b1, d1, d0>>, FALSE)

\* f * x in binary64, f a small int (converted exactly).
MulSmall(f, x) == RoundSig(Norm(<<f * x[1], f * x[2], f * x[3]>>), FALSE)

(***************************************************************************)
(* round(sum/n, 1) in tenths of a point, sum in thousandths.  sum/n is the *)
(* double nearest to the exact mean; round() rounds that double's exact    *)
(* value, half to even.  The exact mean is a tie k + 1/2 tenths only when  *)
(* 2 * (sum mod 100n) = 100n; the double is then the tie itself when       *)
(* (2k+1)/20 is dyadic (5 divides 2k+1), and lies below or above it        *)
(* otherwise, by the remainder of (2k+1) * 2^(50-e) modulo 5.              *)
(***************************************************************************)
TwoPowMod5(k) == <<1, 2, 4, 3>>[(k % 4) + 1]

\* floor(log2((2k+1)/20)) for values in [1/16, 16).
TieExponent(j) == BitLen((j * 16) \div 20) - 5

Round1Tenths(sum, n) ==
    LET den  == 100 * n
        k    == sum \div den
        rem  == sum % den
        j    == 2 * k + 1
        r    == ((j % 5) * TwoPowMod5(50 - TieExponent(j))) % 5
    IN  IF 2 * rem < den THEN k
        ELSE IF 2 * rem > den THEN k + 1
        ELSE IF j % 5 = 0 THEN (IF k % 2 = 0 THEN k ELSE k + 1)
        ELSE IF r <= 2 THEN k ELSE k + 1


(***************************************************************************)
(* Values.  A datetime.date is [type |-> "date", day |-> ordinal]; the str *)
(* date.isoformat() yields is [type |-> "str", day |-> ordinal].  A tag is *)
(* a str, held as the sequence of its characters (Hangul syllables are     *)
(* written in Latin transcription: "un","dong" is the tag 운동).            *)
(***************************************************************************)
DateObj(d) == [type |-> "date", day |-> d]
IsoStr(d)  == [type |-> "str", day |-> d]

\* date.isoformat()
isoformat(d) == IsoStr(d.day)

\* record_date = entry.get("record_date", ""); isoformat() if it is a date.
RecordDateKey(entry) ==
    IF entry.record_date.type = "date" THEN isoformat(entry.record_date)
    ELSE entry.record_date

Min(a, b) == IF a <= b THEN a ELSE b

\* seq[:n]
Take(seq, n) == SubSeq(seq, 1, Min(n, Len(seq)))

\* date_to_score.get(record_date, 5.0): the dict is filled in list order, so
\* the last DailyScore of a date wins.
DEFAULT_SCORE == 5000

DateToScore(daily_scores, key) ==
    LET idx == {i \in 1..Len(daily_scores) : daily_scores[i].date = key}
    IN  IF idx = {} THEN DEFAULT_SCORE
        ELSE daily_scores[CHOOSE i \in idx : \A j \in idx : j <= i].score

RECURSIVE SumScores(_)
SumScores(scores) ==
    IF scores = <<>> THEN 0 ELSE Head(scores) + SumScores(Tail(scores))

(***************************************************************************)
(* calculate_average_score / determine_evaluation_type                     *)
(***************************************************************************)
\* Variant: an empty list averages to the neutral score.
calculate_average_score_NeutralWhenEmpty(daily_scores) ==
    IF daily_scores = <<>> THEN 5000
    ELSE 100 * Round1Tenths(
             SumScores([i \in 1..Len(daily_scores) |-> daily_scores[i].score]),
             Len(daily_scores))

calculate_average_score(daily_scores) ==
    IF daily_scores = <<>> THEN 0
    ELSE 100 * Round1Tenths(
             SumScores([i \in 1..Len(daily_scores) |-> daily_scores[i].score]),
             Len(daily_scores))

\* Variant: the threshold itself is not positive.
determine_evaluation_type_Strict(average_score) ==
    IF average_score > SCORE_THRESHOLD THEN "positive" ELSE "negative"

determine_evaluation_type(average_score) ==
    IF average_score >= SCORE_THRESHOLD THEN "positive" ELSE "negative"

(***************************************************************************)
(* sorted(seq, key=..., reverse=...) and list.sort: Python's sort is       *)
(* stable, also with reverse=True (elements with equal keys keep their     *)
(* original order).  An item is [key |-> binary64 key, val |-> element];   *)
(* the key of an element is computed once, as Python does.                 *)
(***************************************************************************)
Precedes(k1, k2, reverse) ==
    IF reverse THEN DoubleLess(k2, k1) ELSE DoubleLess(k1, k2)

\* item goes before the first element it must precede, after all others
RECURSIVE InsertSorted(_, _, _, _)
InsertSorted(sorted, item, reverse, i) ==
    IF i > Len(sorted) THEN Append(sorted, item)
    ELSE IF Precedes(item.key, sorted[i].key, reverse)
         THEN SubSeq(sorted, 1, i - 1) \o <<item>> \o SubSeq(sorted, i, Len(sorted))
         ELSE InsertSorted(sorted, item, reverse, i + 1)

RECURSIVE StableSort(_, _)
StableSort(items, reverse) ==
    IF items = <<>> THEN <<>>
    ELSE InsertSorted(StableSort(SubSeq(items, 1, Len(items) - 1), reverse),
                      items[Len(items)], reverse, 1)

Undecorate(items) == [i \in 1..Len(items) |-> items[i].val]

\* A score (thousandths, a multiple of 1/8 point) as the binary64 it is.
ScoreAsDouble(s) ==
    LET n2 == s * 2^16
        n1 == (n2 % 1000) * Limb
        n0 == (n1 % 1000) * Limb
    IN  <<n2 \div 1000, n1 \div 1000, n0 \div 1000>>

(***************************************************************************)
(* identify_extreme_days                                                   *)
(***************************************************************************)
EXTREME_DAYS == 3

\* Variant: ascending whatever the evaluation.
identify_extreme_days_Ascending(daily_scores, evaluation) ==
    IF daily_scores = <<>> THEN <<>>
    ELSE LET items == [i \in 1..Len(daily_scores) |->
                          [key |-> ScoreAsDouble(daily_scores[i].score),
                           val |-> daily_scores[i]]]
         IN  Take(Undecorate(StableSort(items, FALSE)), 3)

identify_extreme_days(daily_scores, evaluation) ==
    IF daily_scores = <<>> THEN <<>>
    ELSE LET items == [i \in 1..Len(daily_scores) |->
                          [key |-> ScoreAsDouble(daily_scores[i].score),
                           val |-> daily_scores[i]]]
             sorted_scores == StableSort(items, evaluation = "positive")
         IN  Take(Undecorate(sorted_scores), EXTREME_DAYS)

(***************************************************************************)
(* _infer_tag_type: "keyword in tag.lower()" is substring search.          *)
(***************************************************************************)
weather_keywords ==
    << <<"malg", "eum">>, <<"heu", "rim">>, <<"bi">>, <<"nun">>,
       <<"deo", "um">>, <<"chu", "um">>, <<"nal", "ssi">> >>

activity_keywords ==
    << <<"un", "dong">>, <<"san", "chaek">>, <<"dog", "seo">>, <<"yeong", "hwa">>,
       <<"ge", "im">>, <<"yo", "ri">>, <<"cheong", "so">> >>

\* str.lower(): Hangul has no case; the Latin capitals of the model's tags.
LowerChar(c) == IF c = "S" THEN "s" ELSE IF c = "N" THEN "n" ELSE c

Lower(tag) == [i \in 1..Len(tag) |-> LowerChar(tag[i])]

Contains(keyword, text) ==
    \E i \in 1..(Len(text) - Len(keyword) + 1) :
        SubSeq(text, i, i + Len(keyword) - 1) = keyword

\* Variant: the activity keywords are tried first.
infer_tag_type_ActivityFirst(tag) ==
    LET tag_lower == Lower(tag)
    IN  IF \E i \in 1..Len(activity_keywords) : Contains(activity_keywords[i], tag_lower)
        THEN "activity"
        ELSE IF \E i \in 1..Len(weather_keywords) :
                    Contains(weather_keywords[i], tag_lower)
        THEN "weather"
        ELSE "experience"

infer_tag_type(tag) ==
    LET tag_lower == Lower(tag)
    IN  IF \E i \in 1..Len(weather_keywords) : Contains(weather_keywords[i], tag_lower)
        THEN "weather"
        ELSE IF \E i \in 1..Len(activity_keywords) :
                    Contains(activity_keywords[i], tag_lower)
        THEN "activity"
        ELSE "experience"

(***************************************************************************)
(* identify_patterns                                                       *)
(***************************************************************************)
MAX_PATTERNS == 10

\* Variant: an entry whose date has no DailyScore is left out.
EntryOccurrences_SkipUnscored(entry, daily_scores) ==
    IF \A i \in 1..Len(daily_scores) : daily_scores[i].date # RecordDateKey(entry)
    THEN <<>>
    ELSE [j \in 1..Len(entry.tags) |->
             [tag   |-> entry.tags[j],
              score |-> DateToScore(daily_scores, RecordDateKey(entry))]]

\* One [tag, score] per tag occurrence of one entry, in tag order.
EntryOccurrences(entry, daily_scores) ==
    LET score == DateToScore(daily_scores, RecordDateKey(entry))
    IN  [j \in 1..Len(entry.tags) |-> [tag |-> entry.tags[j], score |-> score]]

RECURSIVE TagOccurrences(_, _)
TagOccurrences(entries, daily_scores) ==
    IF entries = <<>> THEN <<>>
    ELSE EntryOccurrences(Head(entries), daily_scores)
             \o TagOccurrences(Tail(entries), daily_scores)

\* The keys of the dict tag_scores, in insertion order: the tags of the
\* occurrences that no earlier occurrence has.
FirstSeenTags(occ) ==
    LET first == SelectSeq([i \in 1..Len(occ) |-> i],
                           LAMBDA i : \A j \in 1..(i - 1) : occ[j].tag # occ[i].tag)
    IN  [k \in 1..Len(first) |-> occ[first[k]].tag]

\* tag_scores[tag]
TagScores(occ, tag) ==
    LET mine == SelectSeq(occ, LAMBDA o : o.tag = tag)
    IN  [i \in 1..Len(mine) |-> mine[i].score]

\* avg_score >= SCORE_THRESHOLD for avg_score = sum/n in binary64: the exact
\* mean of n <= 2^20 multiples of 1/8 is either >= 5.0 or more than an ulp
\* below it, so the rounded quotient compares as the exact one.
MeanAtLeastThreshold(sum, n) == sum >= SCORE_THRESHOLD * n

PatternCorrelation(sum, n) ==
    IF MeanAtLeastThreshold(sum, n) THEN "positive" ELSE "negative"

PatternOf(tag, scores) ==
    LET sum == SumScores(scores)
    IN  [type          |-> infer_tag_type(tag),
         value         |-> tag,
         correlation   |-> PatternCorrelation(sum, Len(scores)),
         frequency     |-> Len(scores),
         average_score |-> 100 * Round1Tenths(sum, Len(scores))]

\* p.frequency * abs(p.average_score - self.SCORE_THRESHOLD), in binary64
ImpactKey(p) ==
    MulSmall(p.frequency,
             AbsDiff(FromTenths(p.average_score \div 100),
                     FromTenths(SCORE_THRESHOLD \div 100)))

\* Variant: the patterns in dict order, not ranked.
identify_patterns_Unranked(entries, daily_scores) ==
    LET occ  == TagOccurrences(entries, daily_scores)
        tags == FirstSeenTags(occ)
    IN  Take([i \in 1..Len(tags) |-> PatternOf(tags[i], TagScores(occ, tags[i]))], 10)

identify_patterns(entries, daily_scores) ==
    LET occ      == TagOccurrences(entries, daily_scores)
        tags     == FirstSeenTags(occ)
        patterns == [i \in 1..Len(tags) |-> PatternOf(tags[i], TagScores(occ, tags[i]))]
        items    == [i \in 1..Len(patterns) |->
                        [key |-> ImpactKey(patterns[i]), val |-> patterns[i]]]
    IN  Take(Undecorate(StableSort(items, TRUE)), MAX_PATTERNS)

(***************************************************************************)
(* generate_feedback.  A feedback string is held as the template that      *)
(* produced it and the values formatted into it.                           *)
(***************************************************************************)
FEEDBACK_DAYS == 2
FEEDBACK_PATTERNS == 3

DaySentence(day, evaluation) ==
    [kind  |-> IF evaluation = "positive" THEN "day_high" ELSE "day_low",
     date  |-> day.date,
     score |-> day.score]

PatternSentence(pattern) ==
    IF pattern.correlation = "positive"
    THEN [kind |-> "pattern_keep", value |-> pattern.value,
          frequency |-> pattern.frequency, average_score |-> pattern.average_score]
    ELSE [kind |-> "pattern_cope", value |-> pattern.value,
          average_score |-> pattern.average_score]

ClosingSentence(evaluation) ==
    [kind |-> IF evaluation = "positive" THEN "week_positive" ELSE "week_negative"]

\* Variant: the pattern sentences come before the day sentences.
generate_feedback_PatternsFirst(entries, daily_scores, patterns, evaluation) ==
    LET days == Take(identify_extreme_days(daily_scores, evaluation), 2)
        pats == Take(patterns, 3)
    IN  [i \in 1..Len(pats) |-> PatternSentence(pats[i])]
            \o [i \in 1..Len(days) |-> DaySentence(days[i], evaluation)]
            \o <<ClosingSentence(evaluation)>>

generate_feedback(entries, daily_scores, patterns, evaluation) ==
    LET extreme_days == identify_extreme_days(daily_scores, evaluation)
        days         == Take(extreme_days, FEEDBACK_DAYS)
        pats         == Take(patterns, FEEDBACK_PATTERNS)
    IN  [i \in 1..Len(days) |-> DaySentence(days[i], evaluation)]
            \o [i \in 1..Len(pats) |-> PatternSentence(pats[i])]
            \o <<ClosingSentence(evaluation)>>

(***************************************************************************)
(* _create_daily_analysis.  A diary text is [text, len]: which text it is  *)
(* and how many characters it has.                                         *)
(***************************************************************************)
SUMMARY_LEN == 100

EmptyContent == [text |-> "", len |-> 0]

\* date_to_entry.get(score.date, {}).get("content", ""): the last entry of a
\* date wins.
ContentOfDate(entries, key) ==
    LET idx == {i \in 1..Len(entries) : RecordDateKey(entries[i]) = key}
    IN  IF idx = {} THEN EmptyContent
        ELSE entries[CHOOSE i \in idx : \A j \in idx : j <= i].content

\* Variant: a content of exactly 100 characters is cut as well.
Summary_CutFrom100(content) ==
    IF content.len >= 100
    THEN [text |-> content.text, len |-> 100 + 3, ellipsis |-> TRUE]
    ELSE [text |-> content.text, len |-> content.len, ellipsis |-> FALSE]

\* content[:100] + "..." if len(content) > 100 else content
Summary(content) ==
    IF content.len > SUMMARY_LEN
    THEN [text |-> content.text, len |-> SUMMARY_LEN + 3, ellipsis |-> TRUE]
    ELSE [text |-> content.text, len |-> content.len, ellipsis |-> FALSE]

create_daily_analysis(entries, daily_scores) ==
    [i \in 1..Len(daily_scores) |->
        [date          |-> daily_scores[i].date,
         score         |-> daily_scores[i].score,
         sentiment     |-> daily_scores[i].sentiment,
         diary_content |-> Summary(ContentOfDate(entries, daily_scores[i].date)),
         key_themes    |-> daily_scores[i].key_themes]]

(***************************************************************************)
(* generate_report                                                         *)
(***************************************************************************)
\* days_in_week = (week_end - week_start).days + 1
DaysInWeek(w_start, w_end) == (w_end.day - w_start.day) + 1

\* Variant: as many entries as days is still partial.
HasPartialData_Inclusive(ents, days_in_week) == Len(ents) <= days_in_week

\* has_partial_data = len(entries) < days_in_week
HasPartialData(ents, days_in_week) == Len(ents) < days_in_week

WarningSentence(days_in_week, count) ==
    [kind |-> "partial_warning", days |-> days_in_week, count |-> count]

\* Variant: the warning is added at the end.
InsertWarning_Appended(feedback, days_in_week, count) ==
    Append(feedback, WarningSentence(days_in_week, count))

\* feedback.insert(0, warning)
InsertWarning(feedback, days_in_week, count) ==
    <<WarningSentence(days_in_week, count)>> \o feedback

generate_report(user_id, nickname, w_start, w_end, ents, an) ==
    LET average_score    == calculate_average_score(an.daily_scores)
        evaluation       == determine_evaluation_type(average_score)
        daily_analysis   == create_daily_analysis(ents, an.daily_scores)
        patterns         == identify_patterns(ents, an.daily_scores)
        feedback         == generate_feedback(ents, an.daily_scores, patterns, evaluation)
                                \o an.recommendations
        days_in_week     == DaysInWeek(w_start, w_end)
        has_partial_data == HasPartialData(ents, days_in_week)
    IN  [user_id          |-> user_id,
         nickname         |-> nickname,
         week_start       |-> w_start,
         week_end         |-> w_end,
         average_score    |-> average_score,
         evaluation       |-> evaluation,
         daily_analysis   |-> daily_analysis,
         patterns         |-> patterns,
         feedback         |-> IF has_partial_data
                              THEN InsertWarning(feedback, days_in_week, Len(ents))
                              ELSE feedback,
         has_partial_data |-> has_partial_data]

(***************************************************************************)
(* State: the arguments a caller holds, the last call made on the service  *)
(* and what it returned.  ReportAnalysisService has no fields of its own.  *)
(***************************************************************************)
VARIABLES entries, analysis, week_start, week_end, call, ret

\* For calls that overlap (SpecCalls): the clock, and for each request the
\* call it has in progress: its arguments, its position and its locals.
VARIABLES now, calls

\* The weekly_reports table behind ReportRepository (a report's id is its
\* place in the table), and the background tasks the create endpoints add.
VARIABLES reports, tasks

vars == <<entries, analysis, week_start, week_end, call, ret, now, calls,
          reports, tasks>>

inputs == <<entries, analysis, week_start, week_end>>

overlapping == <<now, calls>>

stored == <<reports, tasks>>

\* Where one call at a time is looked at.
NoOverlappingCalls == now = 0 /\ calls = <<>>

\* Where the service is looked at without the table and the tasks.
NoStoredReports == reports = <<>> /\ tasks = <<>>

NoCall == [op |-> "none", evaluation |-> "none"]

(***************************************************************************)
(* Inputs.  Tags (tests/test_report_service.py uses the same ones).        *)
(***************************************************************************)
TagExercise == <<"un", "dong">>
TagSunny    == <<"malg", "eum">>
TagReading  == <<"dog", "seo">>
TagFriend   == <<"chin", "gu">>
TagStress   == <<"seu", "teu", "re", "seu">>
TagCloudy   == <<"heu", "rim">>
TagDaily    == <<"il", "sang">>
TagWalk     == <<"san", "chaek">>
TagMovie    == <<"yeong", "hwa">>
TagCooking  == <<"yo", "ri">>
TagRain     == <<"bi">>

\* Eleven distinct tags, one more than identify_patterns returns.
ManyTags ==
    <<TagReading, TagFriend, TagStress, TagCloudy, TagDaily, TagWalk,
      TagMovie, TagCooking, TagRain, TagSunny, TagExercise>>

SeqsUpTo(S, n) == UNION {[1..k -> S] : k \in 0..n}

\* The i-th entry of a request has id i.
MakeEntries(shapes) ==
    [i \in 1..Len(shapes) |->
        [id          |-> i,
         content     |-> shapes[i].content,
         record_date |-> shapes[i].record_date,
         tags        |-> shapes[i].tags]]

\* The DailyScore of day i (the sentiment service answers one per day, in
\* date order); its label and themes are opaque to the aggregation.
MakeDailyScores(scores) ==
    [i \in 1..Len(scores) |->
        [date       |-> IsoStr(i),
         score      |-> scores[i],
         sentiment  |-> IF scores[i] >= 5000 THEN "good" ELSE "low",
         key_themes |-> <<TagDaily>>]]

MakeAnalysis(scores, recommendations) ==
    [daily_scores      |-> MakeDailyScores(scores),
     positive_patterns |-> <<>>,
     negative_patterns |-> <<>>,
     recommendations   |-> recommendations]

Text(t) == [kind |-> "text", text |-> t]

(***************************************************************************)
(* Spec: generate_report on a request's entries and analysis.              *)
(***************************************************************************)
MaxEntries == 3
MaxScores == 3

ReportEntryShapes ==
    { [content |-> [text |-> "c1", len |-> 30], record_date |-> DateObj(1),
       tags |-> <<TagExercise, TagSunny>>],
      [content |-> [text |-> "c2", len |-> 120], record_date |-> DateObj(2),
       tags |-> <<TagReading, TagFriend>>],
      [content |-> [text |-> "c3", len |-> 100], record_date |-> IsoStr(3),
       tags |-> <<>>] }

ReportScores == {4875, 5000, 7500}

ReportRecommendations == {<<>>, <<Text("r1"), Text("r2")>>}

\* week_start is day 1; the route refuses week_start > week_end.
WeekEnds == 1..3

Init ==
    /\ entries \in {MakeEntries(sh) : sh \in SeqsUpTo(ReportEntryShapes, MaxEntries)}
    /\ analysis \in {MakeAnalysis(sc, rc) : sc \in SeqsUpTo(ReportScores, MaxScores),
                                            rc \in ReportRecommendations}
    /\ week_start = DateObj(1)
    /\ week_end \in {DateObj(d) : d \in WeekEnds}
    /\ call = NoCall
    /\ ret = <<>>
    /\ NoOverlappingCalls
    /\ NoStoredReports

GenerateReport ==
    /\ call = NoCall
    /\ ret' = generate_report("user-1", "nick", week_start, week_end, entries, analysis)
    /\ call' = [op |-> "generate_report", evaluation |-> "none"]
    /\ UNCHANGED <<inputs, overlapping, stored>>

Next == GenerateReport

Spec == Init /\ [][Next]_vars

(***************************************************************************)
(* SpecDays: calculate_average_score and identify_extreme_days on a list   *)
(* of daily scores, for either evaluation.                                 *)
(***************************************************************************)
MaxDays == 4

DayScores == {4000, 4875, 5000, 7500}

InitDays ==
    /\ entries = <<>>
    /\ analysis \in {MakeAnalysis(sc, <<>>) : sc \in SeqsUpTo(DayScores, MaxDays)}
    /\ week_start = DateObj(1)
    /\ week_end = DateObj(7)
    /\ call = NoCall
    /\ ret = <<>>
    /\ NoOverlappingCalls
    /\ NoStoredReports

CalculateAverageScore ==
    /\ ret' = calculate_average_score(analysis.daily_scores)
    /\ call' = [op |-> "calculate_average_score", evaluation |-> "none"]
    /\ UNCHANGED <<inputs, overlapping, stored>>

IdentifyExtremeDays ==
    \E evaluation \in {"positive", "negative"} :
        /\ ret' = identify_extreme_days(analysis.daily_scores, evaluation)
        /\ call' = [op |-> "identify_extreme_days", evaluation |-> evaluation]
        /\ UNCHANGED <<inputs, overlapping, stored>>

NextDays == CalculateAverageScore \/ IdentifyExtremeDays

SpecDays == InitDays /\ [][NextDays]_vars

(***************************************************************************)
(* SpecPatterns: identify_patterns.  Day 3 has no DailyScore, so its       *)
(* entries take the default score.                                         *)
(***************************************************************************)
MaxPatternEntries == 3

PatternEntryShapes ==
    { [content |-> [text |-> "c", len |-> 10], record_date |-> DateObj(1),
       tags |-> <<TagExercise>>],
      [content |-> [text |-> "c", len |-> 10], record_date |-> DateObj(2),
       tags |-> <<TagSunny>>],
      [content |-> [text |-> "c", len |-> 10], record_date |-> DateObj(3),
       tags |-> <<TagExercise, TagSunny>>],
      [content |-> [text |-> "c", len |-> 10], record_date |-> DateObj(2),
       tags |-> <<TagSunny, TagExercise>>],
      [content |-> [text |-> "c", len |-> 10], record_date |-> IsoStr(3),
       tags |-> ManyTags],
      [content |-> [text |-> "c", len |-> 10], record_date |-> DateObj(1),
       tags |-> <<TagExercise, TagExercise>>] }

PatternScores == {4875, 5125, 5250, 7500}

InitPatterns ==
    /\ entries \in {MakeEntries(sh) : sh \in SeqsUpTo(PatternEntryShapes, MaxPatternEntries)}
    /\ analysis \in {MakeAnalysis(sc, <<>>) : sc \in SeqsUpTo(PatternScores, 2)}
    /\ week_start = DateObj(1)
    /\ week_end = DateObj(7)
    /\ call = NoCall
    /\ ret = <<>>
    /\ NoOverlappingCalls
    /\ NoStoredReports

IdentifyPatterns ==
    /\ ret' = identify_patterns(entries, analysis.daily_scores)
    /\ call' = [op |-> "identify_patterns", evaluation |-> "none"]
    /\ UNCHANGED <<inputs, overlapping, stored>>

NextPatterns == IdentifyPatterns

SpecPatterns == InitPatterns /\ [][NextPatterns]_vars

(***************************************************************************)
(* Properties.  What they say is stated from the arguments (entries,       *)
(* analysis, week_start, week_end) and the returned value (ret).           *)
(***************************************************************************)
Abs(x) == IF x < 0 THEN -x ELSE x

DailyScoreList == analysis.daily_scores

ScoreTotal == SumScores([i \in 1..Len(DailyScoreList) |-> DailyScoreList[i].score])

\* frequency * |average_score - 5.0| as a real number, in thousandths
Impact(p) == p.frequency * Abs(p.average_score - 5000)

\* The places <<entry, position>> of the tags of the entries.
TagPlaces ==
    UNION {{<<e, j>> : j \in 1..Len(entries[e].tags)} : e \in 1..Len(entries)}

TagAt(place) == entries[place[1]].tags[place[2]]

DistinctTags == {TagAt(place) : place \in TagPlaces}

Occurrences(tag) == {place \in TagPlaces : TagAt(place) = tag}

\* The score of an entry's day: DailyScore i is the one of day i.
DayScoreOf(e) ==
    LET d == entries[e].record_date.day
    IN  IF d \in 1..Len(DailyScoreList) THEN DailyScoreList[d].score ELSE 5000

RECURSIVE PlaceScoreSum(_)
PlaceScoreSum(places) ==
    IF places = {} THEN 0
    ELSE LET place == CHOOSE x \in places : TRUE
         IN  DayScoreOf(place[1]) + PlaceScoreSum(places \ {place})

\* tag1 is met before tag2 when the entries are scanned in order, the tags
\* of an entry in order.
SeenBefore(tag1, tag2) ==
    \E p1 \in Occurrences(tag1) : \A p2 \in Occurrences(tag2) :
        p1[1] < p2[1] \/ (p1[1] = p2[1] /\ p1[2] < p2[2])

\* value is within 0.05 of total/count and has one decimal
IsRoundedMean(value, total, count) ==
    /\ value % 100 = 0
    /\ 2 * Abs(value * count - total) <= 100 * count

(***************************************************************************)
(* C1: for a non-empty list of daily scores the report's average_score is  *)
(* the mean of the scores rounded to one decimal, and its evaluation is    *)
(* "positive" exactly when that rounded average_score is >= 5.0.           *)
(***************************************************************************)
C1_AverageAndEvaluation ==
    (call.op = "generate_report" /\ DailyScoreList # <<>>) =>
        /\ IsRoundedMean(ret.average_score, ScoreTotal, Len(DailyScoreList))
        /\ (ret.evaluation = "positive") <=> (ret.average_score >= 5000)
        /\ ret.evaluation \in {"positive", "negative"}

\* a mean below 5.0 that rounds to 5.0: the report is positive
C1_Witness ==
    /\ call.op = "generate_report"
    /\ DailyScoreList # <<>>
    /\ ScoreTotal < 5000 * Len(DailyScoreList)
    /\ ret.average_score = 5000
    /\ ret.evaluation = "positive"

(***************************************************************************)
(* C2: every pattern identify_patterns returns has correlation "positive"  *)
(* exactly when its own average_score field (one decimal) is >= 5.0.       *)
(***************************************************************************)
C2_CorrelationMatchesAverageField ==
    call.op = "identify_patterns" =>
        \A i \in 1..Len(ret) :
            (ret[i].correlation = "positive") <=> (ret[i].average_score >= 5000)

(***************************************************************************)
(* C3: identify_patterns returns at most 10 patterns, in non-increasing    *)
(* order of frequency * |average_score - 5.0| taken from their fields, and *)
(* no tag left out has a strictly larger impact than a returned one.       *)
(***************************************************************************)
OmittedTags == DistinctTags \ {ret[i].value : i \in 1..Len(ret)}

PatternOfTag(tag) ==
    PatternOf(tag, TagScores(TagOccurrences(entries, DailyScoreList), tag))

C3_AtMostTenRanked ==
    call.op = "identify_patterns" =>
        /\ Len(ret) <= 10
        /\ \A i \in 1..(Len(ret) - 1) : Impact(ret[i]) >= Impact(ret[i + 1])
        /\ \A tag \in OmittedTags : \A i \in 1..Len(ret) :
               Impact(PatternOfTag(tag)) <= Impact(ret[i])

\* eleven tags, ten returned, the returned ones not all of one impact
C3_Witness ==
    /\ call.op = "identify_patterns"
    /\ Cardinality(DistinctTags) > 10
    /\ Len(ret) = 10
    /\ OmittedTags # {}
    /\ Impact(ret[1]) > Impact(ret[10])

(***************************************************************************)
(* C4: one pattern per distinct tag of the entries (all of them up to 10   *)
(* tags, none for a tag no entry has); its frequency is the number of      *)
(* occurrences of the tag, its average_score the rounded mean of the       *)
(* scores of the days of the occurrences, 5.0 standing for a day without   *)
(* DailyScore.                                                             *)
(***************************************************************************)
C4_OnePatternPerTag ==
    call.op = "identify_patterns" =>
        /\ Len(ret) = Min(10, Cardinality(DistinctTags))
        /\ \A i \in 1..Len(ret) : ret[i].value \in DistinctTags
        /\ \A i, j \in 1..Len(ret) : i # j => ret[i].value # ret[j].value
        /\ \A i \in 1..Len(ret) :
               LET places == Occurrences(ret[i].value)
               IN  /\ ret[i].frequency = Cardinality(places)
                   /\ IsRoundedMean(ret[i].average_score, PlaceScoreSum(places),
                                    Cardinality(places))

\* a tag met on a day with a score other than 5.0 and on a day without score
C4_Witness ==
    /\ call.op = "identify_patterns"
    /\ \E i \in 1..Len(ret) :
           /\ ret[i].frequency >= 2
           /\ \E p \in Occurrences(ret[i].value) :
                  entries[p[1]].record_date.day > Len(DailyScoreList)
           /\ \E p \in Occurrences(ret[i].value) :
                  /\ entries[p[1]].record_date.day <= Len(DailyScoreList)
                  /\ DayScoreOf(p[1]) # 5000
           /\ ret[i].average_score # 5000

(***************************************************************************)
(* C5: two returned patterns of equal frequency * |average_score - 5.0|    *)
(* stand in the order in which their tags were first met.                  *)
(***************************************************************************)
C5_TiesInFirstSeenOrder ==
    call.op = "identify_patterns" =>
        \A i, j \in 1..Len(ret) :
            (i < j /\ Impact(ret[i]) = Impact(ret[j]))
                => SeenBefore(ret[i].value, ret[j].value)

(***************************************************************************)
(* C6: identify_extreme_days returns min(3, n) of the n DailyScore items   *)
(* given, each one of them and none twice: the highest days in             *)
(* non-increasing score order for "positive", the lowest days in           *)
(* non-decreasing order for "negative"; nothing for an empty list.         *)
(***************************************************************************)
MoreExtreme(s1, s2, evaluation) ==
    IF evaluation = "positive" THEN s1 > s2 ELSE s1 < s2

UnselectedDays == {k \in 1..Len(DailyScoreList) :
                      \A i \in 1..Len(ret) : ret[i] # DailyScoreList[k]}

C6_ExtremeDays ==
    call.op = "identify_extreme_days" =>
        /\ Len(ret) = Min(3, Len(DailyScoreList))
        /\ \A i \in 1..Len(ret) : \E k \in 1..Len(DailyScoreList) :
               ret[i] = DailyScoreList[k]
        /\ \A i, j \in 1..Len(ret) : i # j => ret[i] # ret[j]
        /\ \A i \in 1..(Len(ret) - 1) :
               ~MoreExtreme(ret[i + 1].score, ret[i].score, call.evaluation)
        /\ \A k \in UnselectedDays : \A i \in 1..Len(ret) :
               ~MoreExtreme(DailyScoreList[k].score, ret[i].score, call.evaluation)

\* the three highest of four days that were not given in score order, one
\* strictly lower day left out
C6_Witness ==
    /\ call.op = "identify_extreme_days"
    /\ call.evaluation = "positive"
    /\ Len(DailyScoreList) = 4
    /\ DailyScoreList[1].score < DailyScoreList[4].score
    /\ Len(ret) = 3
    /\ ret[1].score > ret[2].score
    /\ ret[2].score > ret[3].score
    /\ \E k \in UnselectedDays : DailyScoreList[k].score < ret[3].score

(***************************************************************************)
(* C7: the feedback of a report, a leading partial-data warning set aside, *)
(* is: a sentence for each of the first min(2, n) extreme days, then a     *)
(* sentence for each of the first min(3, #patterns) patterns (reinforcing  *)
(* wording exactly for a positive correlation), then one closing sentence  *)
(* chosen by the evaluation, then the recommendations as they were given.  *)
(***************************************************************************)
IsWarning(sentence) == sentence.kind = "partial_warning"

FeedbackBody ==
    IF ret.feedback # <<>> /\ IsWarning(Head(ret.feedback))
    THEN Tail(ret.feedback) ELSE ret.feedback

IsClosing(sentence) == sentence.kind \in {"week_positive", "week_negative"}

C7_FeedbackOrder ==
    call.op = "generate_report" =>
        LET body    == FeedbackBody
            extreme == identify_extreme_days(DailyScoreList, ret.evaluation)
            nd      == Min(2, Len(DailyScoreList))
            np      == Min(3, Len(ret.patterns))
            recs    == analysis.recommendations
        IN  /\ Len(body) = nd + np + 1 + Len(recs)
            /\ \A i \in 1..nd :
                   /\ body[i].kind = IF ret.evaluation = "positive"
                                     THEN "day_high" ELSE "day_low"
                   /\ body[i].date = extreme[i].date
                   /\ body[i].score = extreme[i].score
            /\ \A i \in 1..np :
                   /\ body[nd + i].kind = IF ret.patterns[i].correlation = "positive"
                                          THEN "pattern_keep" ELSE "pattern_cope"
                   /\ body[nd + i].value = ret.patterns[i].value
            /\ body[nd + np + 1].kind = IF ret.evaluation = "positive"
                                        THEN "week_positive" ELSE "week_negative"
            /\ Cardinality({i \in 1..Len(body) : IsClosing(body[i])}) = 1
            /\ \A i \in 1..Len(recs) : body[nd + np + 1 + i] = recs[i]

\* more days and patterns than are mentioned, patterns of both
\* correlations among the mentioned ones, recommendations, a warning
C7_Witness ==
    /\ call.op = "generate_report"
    /\ Len(DailyScoreList) >= 3
    /\ Len(ret.patterns) >= 4
    /\ \E i, j \in 1..3 : /\ ret.patterns[i].correlation = "positive"
                          /\ ret.patterns[j].correlation = "negative"
    /\ analysis.recommendations # <<>>
    /\ IsWarning(Head(ret.feedback))
    /\ Len(ret.feedback) = 1 + 2 + 3 + 1 + Len(analysis.recommendations)

(***************************************************************************)
(* C8: has_partial_data is true exactly when the number of entries given   *)
(* is less than (week_end - week_start).days + 1; when true the feedback   *)
(* starts with the one warning sentence, which names that number of days   *)
(* and the number of entries; when false the feedback has no warning.      *)
(***************************************************************************)
CalendarDays == week_end.day - week_start.day + 1

WarningPlaces == {i \in 1..Len(ret.feedback) : IsWarning(ret.feedback[i])}

C8_PartialDataFlag ==
    call.op = "generate_report" =>
        /\ ret.has_partial_data <=> (Len(entries) < CalendarDays)
        /\ ret.has_partial_data =>
               /\ WarningPlaces = {1}
               /\ ret.feedback[1].days = CalendarDays
               /\ ret.feedback[1].count = Len(entries)
        /\ ~ret.has_partial_data => WarningPlaces = {}

\* one entry short of the window
C8_Witness ==
    /\ call.op = "generate_report"
    /\ Len(entries) >= 1
    /\ Len(entries) = CalendarDays - 1
    /\ ret.has_partial_data
    /\ WarningPlaces = {1}

(***************************************************************************)
(* C9 as stated: whenever the entries cover fewer distinct record dates    *)
(* than the window has calendar days, also when a day has several entries, *)
(* has_partial_data is true and the feedback starts with the warning.      *)
(***************************************************************************)
DistinctDates == {RecordDateKey(entries[e]) : e \in 1..Len(entries)}

WarningFirst == ret.feedback # <<>> /\ IsWarning(Head(ret.feedback))

C9_FewerDistinctDates ==
    (call.op = "generate_report" /\ Cardinality(DistinctDates) < CalendarDays)
        => (ret.has_partial_data /\ WarningFirst)

(***************************************************************************)
(* C9, amended: whenever the entries are fewer in number than the window   *)
(* has calendar days (each entry counted, also several of one day),        *)
(* has_partial_data is true and the feedback starts with the warning;      *)
(* entries that cover fewer distinct dates than the window has days but    *)
(* are at least as many as the days are not flagged.                       *)
(***************************************************************************)
C9_FewerEntries ==
    call.op = "generate_report" =>
        /\ Len(entries) < CalendarDays => (ret.has_partial_data /\ WarningFirst)
        /\ (Cardinality(DistinctDates) < CalendarDays /\ Len(entries) >= CalendarDays)
               => (~ret.has_partial_data /\ ~WarningFirst)

\* several entries of one day, fewer entries than days: flagged
C9_Witness ==
    /\ call.op = "generate_report"
    /\ Cardinality(DistinctDates) < Len(entries)
    /\ Len(entries) < CalendarDays
    /\ ret.has_partial_data
    /\ WarningFirst

(***************************************************************************)
(* C10: generate_report with no entries and no daily scores returns a      *)
(* report with average_score 0.0, evaluation "negative", an empty          *)
(* daily_analysis and no patterns.                                         *)
(***************************************************************************)
C10_EmptyInput ==
    (call.op = "generate_report" /\ entries = <<>> /\ DailyScoreList = <<>>) =>
        /\ ret.average_score = 0
        /\ ret.evaluation = "negative"
        /\ ret.daily_analysis = <<>>
        /\ ret.patterns = <<>>

C10_Witness ==
    /\ call.op = "generate_report"
    /\ entries = <<>>
    /\ DailyScoreList = <<>>
    /\ ret.average_score = 0
    /\ ret.evaluation = "negative"
    /\ ret.feedback # <<>>

(***************************************************************************)
(* C11: for no entries and no daily scores the feedback of the report is   *)
(* the list of recommendations that was passed in and nothing else (empty  *)
(* when none was passed).                                                  *)
(***************************************************************************)
C11_EmptyInputFeedbackIsRecommendations ==
    (call.op = "generate_report" /\ entries = <<>> /\ DailyScoreList = <<>>)
        => ret.feedback = analysis.recommendations

(***************************************************************************)
(* C12: daily_analysis has one DailyAnalysisResult per DailyScore, in the  *)
(* same order, with the same date, score, sentiment and key_themes.  Its   *)
(* diary_content is the content of an entry whose ISO record_date is the   *)
(* score's date: its first 100 characters and "..." when it is longer than *)
(* 100 characters, the content itself otherwise; it is the empty string    *)
(* when no entry has the date; it is never longer than 103 characters.     *)
(***************************************************************************)
EntriesOfDate(day) ==
    {e \in 1..Len(entries) : RecordDateKey(entries[e]) = day}

IsSummaryOf(summary, content) ==
    /\ summary.text = content.text
    /\ IF content.len > 100
       THEN summary.len = 100 + 3 /\ summary.ellipsis
       ELSE summary.len = content.len /\ ~summary.ellipsis

C12_DailyAnalysis ==
    call.op = "generate_report" =>
        /\ Len(ret.daily_analysis) = Len(DailyScoreList)
        /\ \A i \in 1..Len(DailyScoreList) :
               LET result == ret.daily_analysis[i]
                   score  == DailyScoreList[i]
               IN  /\ result.date = score.date
                   /\ result.score = score.score
                   /\ result.sentiment = score.sentiment
                   /\ result.key_themes = score.key_themes
                   /\ result.diary_content.len <= 103
                   /\ IF EntriesOfDate(score.date) = {}
                      THEN result.diary_content.len = 0
                               /\ result.diary_content.text = ""
                      ELSE \E e \in EntriesOfDate(score.date) :
                               IsSummaryOf(result.diary_content, entries[e].content)

\* a day without entry, a day whose entry is cut, a day whose entry of
\* exactly 100 characters is kept whole
C12_Witness ==
    /\ call.op = "generate_report"
    /\ Len(ret.daily_analysis) = 3
    /\ \E i \in 1..3 : /\ EntriesOfDate(DailyScoreList[i].date) = {}
                       /\ ret.daily_analysis[i].diary_content.len = 0
    /\ \E i \in 1..3 : /\ ret.daily_analysis[i].diary_content.ellipsis
                       /\ ret.daily_analysis[i].diary_content.len = 103
    /\ \E i \in 1..3 : /\ ~ret.daily_analysis[i].diary_content.ellipsis
                       /\ ret.daily_analysis[i].diary_content.len = 100

(***************************************************************************)
(* extract_themes                                                          *)
(***************************************************************************)
MAX_THEMES == 5

\* Variant: a day at the threshold is not a positive day.
IsRelevant_Strict(score, evaluation) ==
    \/ evaluation = "positive" /\ score > SCORE_THRESHOLD
    \/ evaluation = "negative" /\ score < SCORE_THRESHOLD

\* evaluation == "positive" and score >= threshold, or
\* evaluation == "negative" and score < threshold
IsRelevant(score, evaluation) ==
    \/ evaluation = "positive" /\ score >= SCORE_THRESHOLD
    \/ evaluation = "negative" /\ score < SCORE_THRESHOLD

RelevantEntries(ents, daily_scores, evaluation) ==
    SelectSeq(ents, LAMBDA entry :
        IsRelevant(DateToScore(daily_scores, RecordDateKey(entry)), evaluation))

\* An int sort key, in the form the sort compares.
CountKey(n) == <<n, 0, 0>>

extract_themes(ents, daily_scores, evaluation) ==
    LET relevant_entries == RelevantEntries(ents, daily_scores, evaluation)
        occ    == TagOccurrences(relevant_entries, daily_scores)
        themes == FirstSeenTags(occ)
        items  == [i \in 1..Len(themes) |->
                      [key |-> CountKey(Len(TagScores(occ, themes[i]))),
                       val |-> themes[i]]]
    IN  Take(Undecorate(StableSort(items, TRUE)), MAX_THEMES)

(***************************************************************************)
(* SpecThemes: extract_themes for either evaluation.  Day 3 has no         *)
(* DailyScore.                                                             *)
(***************************************************************************)
MaxThemeEntries == 3

ThemeEntryShapes ==
    { [content |-> [text |-> "c", len |-> 10], record_date |-> DateObj(1),
       tags |-> <<TagExercise>>],
      [content |-> [text |-> "c", len |-> 10], record_date |-> DateObj(2),
       tags |-> <<TagSunny, TagExercise>>],
      [content |-> [text |-> "c", len |-> 10], record_date |-> IsoStr(3),
       tags |-> <<TagReading, TagSunny>>],
      [content |-> [text |-> "c", len |-> 10], record_date |-> DateObj(1),
       tags |-> <<TagFriend, TagStress, TagCloudy, TagDaily, TagWalk, TagSunny>>],
      [content |-> [text |-> "c", len |-> 10], record_date |-> DateObj(2),
       tags |-> <<>>] }

ThemeScores == {4875, 5000, 7500}

InitThemes ==
    /\ entries \in {MakeEntries(sh) : sh \in SeqsUpTo(ThemeEntryShapes, MaxThemeEntries)}
    /\ analysis \in {MakeAnalysis(sc, <<>>) : sc \in SeqsUpTo(ThemeScores, 2)}
    /\ week_start = DateObj(1)
    /\ week_end = DateObj(7)
    /\ call = NoCall
    /\ ret = <<>>
    /\ NoOverlappingCalls
    /\ NoStoredReports

ExtractThemes ==
    \E evaluation \in {"positive", "negative"} :
        /\ ret' = extract_themes(entries, analysis.daily_scores, evaluation)
        /\ call' = [op |-> "extract_themes", evaluation |-> evaluation]
        /\ UNCHANGED <<inputs, overlapping, stored>>

NextThemes == ExtractThemes

SpecThemes == InitThemes /\ [][NextThemes]_vars

(***************************************************************************)
(* C13: extract_themes returns at most 5 tags, the most frequent ones:     *)
(* occurrences are counted over the entries whose day score has the        *)
(* polarity of the evaluation (>= 5.0 for "positive", < 5.0 for            *)
(* "negative", 5.0 for an entry without DailyScore); the tags come in      *)
(* non-increasing count order, tags of equal count in the order of their   *)
(* first appearance among those entries.                                   *)
(***************************************************************************)
PolarEntries ==
    {e \in 1..Len(entries) :
        IF call.evaluation = "positive" THEN DayScoreOf(e) >= 5000
        ELSE DayScoreOf(e) < 5000}

ThemePlaces == {place \in TagPlaces : place[1] \in PolarEntries}

ThemeTags == {TagAt(place) : place \in ThemePlaces}

ThemeCount(tag) == Cardinality({place \in ThemePlaces : TagAt(place) = tag})

ThemeSeenBefore(tag1, tag2) ==
    \E p1 \in ThemePlaces : /\ TagAt(p1) = tag1
                            /\ \A p2 \in ThemePlaces : TagAt(p2) = tag2 =>
                                   \/ p1[1] < p2[1]
                                   \/ p1[1] = p2[1] /\ p1[2] < p2[2]

ReturnedThemes == {ret[i] : i \in 1..Len(ret)}

C13_ExtractThemes ==
    call.op = "extract_themes" =>
        /\ Len(ret) = Min(5, Cardinality(ThemeTags))
        /\ ReturnedThemes \subseteq ThemeTags
        /\ \A i, j \in 1..Len(ret) : i # j => ret[i] # ret[j]
        /\ \A i, j \in 1..Len(ret) : i < j =>
               \/ ThemeCount(ret[i]) > ThemeCount(ret[j])
               \/ /\ ThemeCount(ret[i]) = ThemeCount(ret[j])
                  /\ ThemeSeenBefore(ret[i], ret[j])
        /\ \A tag \in ThemeTags \ ReturnedThemes : \A i \in 1..Len(ret) :
               \/ ThemeCount(ret[i]) > ThemeCount(tag)
               \/ /\ ThemeCount(ret[i]) = ThemeCount(tag)
                  /\ ThemeSeenBefore(ret[i], tag)

\* an entry of the other polarity whose tags are not counted, more than 5
\* tags to choose from, tags of equal count, an entry without DailyScore
C13_Witness ==
    /\ call.op = "extract_themes"
    /\ call.evaluation = "positive"
    /\ \E e \in 1..Len(entries) : e \notin PolarEntries /\ entries[e].tags # <<>>
    /\ \E e \in PolarEntries : entries[e].record_date.day > Len(DailyScoreList)
    /\ Cardinality(ThemeTags) > 5
    /\ Len(ret) = 5
    /\ ThemeCount(ret[1]) > ThemeCount(ret[2])
    /\ ThemeCount(ret[2]) = ThemeCount(ret[3])

(***************************************************************************)
(* SpecTags: _infer_tag_type on tags of up to MaxTagLen syllables.         *)
(***************************************************************************)
MaxTagLen == 4

\* 비, 운, 동, 맑, 음, 친, 구, 만, 남
TagSyllables == {"bi", "un", "dong", "malg", "eum", "chin", "gu", "man", "nam"}

InitTags ==
    /\ entries = <<>>
    /\ analysis = MakeAnalysis(<<>>, <<>>)
    /\ week_start = DateObj(1)
    /\ week_end = DateObj(7)
    /\ call = NoCall
    /\ ret = <<>>
    /\ NoOverlappingCalls
    /\ NoStoredReports

InferTagType ==
    /\ call = NoCall
    /\ \E tag \in SeqsUpTo(TagSyllables, MaxTagLen) :
           /\ ret' = infer_tag_type(tag)
           /\ call' = [op |-> "infer_tag_type", tag |-> tag]
    /\ UNCHANGED <<inputs, overlapping, stored>>

NextTags == InferTagType

SpecTags == InitTags /\ [][NextTags]_vars

(***************************************************************************)
(* C14: the tag classifier answers for every tag, the first match wins:    *)
(* "weather" for a tag that contains a weather keyword, also when it       *)
(* contains an activity keyword too; "activity" for a tag that contains an *)
(* activity keyword and no weather keyword; "experience" for every other   *)
(* tag, the empty tag included.  비 is weather, 운동 is activity, 친구만남 is    *)
(* experience.                                                             *)
(***************************************************************************)
HasKeyword(tag, keywords) ==
    \E k \in 1..Len(keywords) : \E a, b \in 0..Len(tag) :
        /\ a + Len(keywords[k]) + b = Len(tag)
        /\ \A i \in 1..Len(keywords[k]) : tag[a + i] = keywords[k][i]

C14_TagClassifier ==
    call.op = "infer_tag_type" =>
        LET weather  == HasKeyword(call.tag, weather_keywords)
            activity == HasKeyword(call.tag, activity_keywords)
        IN  /\ ret = IF weather THEN "weather"
                     ELSE IF activity THEN "activity" ELSE "experience"
            /\ call.tag = <<>> => ret = "experience"
            /\ call.tag = <<"bi">> => ret = "weather"
            /\ call.tag = <<"un", "dong">> => ret = "activity"
            /\ call.tag = <<"chin", "gu", "man", "nam">> => ret = "experience"

\* a tag with an activity keyword and, after it, a weather keyword
C14_Witness ==
    /\ call.op = "infer_tag_type"
    /\ call.tag = <<"un", "dong", "bi">>
    /\ ret = "weather"

(***************************************************************************)
(* get_week_range / get_previous_week_range.  The day of a date is its     *)
(* proleptic Gregorian ordinal: 1 is date.min (0001-01-01, a Monday),      *)
(* MAX_ORDINAL is date.max (9999-12-31, a Friday).  date + timedelta       *)
(* raises OverflowError when the result is outside date.min .. date.max.   *)
(***************************************************************************)
MAX_ORDINAL == 3652059

OverflowError == [type |-> "raised", error |-> "OverflowError"]

Raised(x) == x.type = "raised"

\* date + timedelta(days=n), date - timedelta(days=n) for negative n
AddDays(d, n) ==
    IF Raised(d) THEN d
    ELSE IF d.day + n \in 1..MAX_ORDINAL THEN DateObj(d.day + n)
    ELSE OverflowError

\* date.weekday(): 0 is Monday, 6 is Sunday
weekday(d) == (d.day - 1) % 7

\* return a, b: the tuple, unless computing a or b raised
ReturnPair(a, b) ==
    IF Raised(a) THEN a
    ELSE IF Raised(b) THEN b
    ELSE [type |-> "pair", week_start |-> a, week_end |-> b]

\* Variant: the week runs up to the target date only.
get_week_range_UpToTarget(target_date) ==
    ReturnPair(AddDays(target_date, -weekday(target_date)), target_date)

get_week_range(target_date) ==
    LET days_since_monday == weekday(target_date)
        w_start           == AddDays(target_date, -days_since_monday)
        w_end             == AddDays(w_start, 6)
    IN  ReturnPair(w_start, w_end)

\* Variant: the week that holds today.
get_previous_week_range_ThisWeek(today) ==
    LET this_monday == AddDays(today, -weekday(today))
    IN  ReturnPair(this_monday, AddDays(this_monday, 6))

\* today = date.today()
get_previous_week_range(today) ==
    LET days_since_monday == weekday(today)
        this_monday       == AddDays(today, -days_since_monday)
        last_monday       == AddDays(this_monday, -7)
        last_sunday       == AddDays(last_monday, 6)
    IN  ReturnPair(last_monday, last_sunday)

\* lambda/weekly_report_scheduler/lambda_function.py has its own copy
scheduler_get_previous_week_range(today) ==
    LET days_since_monday == weekday(today)
        this_monday       == AddDays(today, -days_since_monday)
        last_monday       == AddDays(this_monday, -7)
        last_sunday       == AddDays(last_monday, 6)
    IN  ReturnPair(last_monday, last_sunday)

(***************************************************************************)
(* SpecWeeks: get_week_range on dates at both ends of the calendar and in  *)
(* 2025; get_previous_week_range, of the service and of the scheduler, on  *)
(* the dates the clock gives (from 2025-01-13 on).                         *)
(***************************************************************************)
DateSpan == 40

\* 2025-01-13, the Monday of the week of the tests
CLOCK_BASE == 739264

ClockDates == CLOCK_BASE..(CLOCK_BASE + DateSpan)

TargetDates ==
    (1..DateSpan) \cup ClockDates \cup ((MAX_ORDINAL - DateSpan)..MAX_ORDINAL)

InitWeeks ==
    /\ entries = <<>>
    /\ analysis = MakeAnalysis(<<>>, <<>>)
    /\ week_start = DateObj(1)
    /\ week_end = DateObj(7)
    /\ call = NoCall
    /\ ret = <<>>
    /\ NoOverlappingCalls
    /\ NoStoredReports

GetWeekRange ==
    /\ call = NoCall
    /\ \E d \in TargetDates :
           /\ ret' = get_week_range(DateObj(d))
           /\ call' = [op |-> "get_week_range", target_date |-> DateObj(d)]
    /\ UNCHANGED <<inputs, overlapping, stored>>

GetPreviousWeekRange ==
    /\ call = NoCall
    /\ \E d \in ClockDates :
           /\ ret' = get_previous_week_range(DateObj(d))
           /\ call' = [op |-> "get_previous_week_range", today |-> DateObj(d)]
    /\ UNCHANGED <<inputs, overlapping, stored>>

SchedulerGetPreviousWeekRange ==
    /\ call = NoCall
    /\ \E d \in ClockDates :
           /\ ret' = scheduler_get_previous_week_range(DateObj(d))
           /\ call' = [op |-> "scheduler_get_previous_week_range",
                       today |-> DateObj(d)]
    /\ UNCHANGED <<inputs, overlapping, stored>>

NextWeeks ==
    GetWeekRange \/ GetPreviousWeekRange \/ SchedulerGetPreviousWeekRange

SpecWeeks == InitWeeks /\ [][NextWeeks]_vars

(***************************************************************************)
(* C15 as stated: for every calendar date d, get_week_range(d) returns     *)
(* (week_start, week_end) with week_start a Monday, week_end =             *)
(* week_start + 6 days (a Sunday) and week_start <= d <= week_end; a       *)
(* Monday is its own week_start, a Sunday its own week_end.                *)
(***************************************************************************)
IsMonday(day) == day % 7 = 1

IsSunday(day) == day % 7 = 0

IsWeekOf(result, day) ==
    /\ result.type = "pair"
    /\ IsMonday(result.week_start.day)
    /\ result.week_end.day = result.week_start.day + 6
    /\ IsSunday(result.week_end.day)
    /\ result.week_start.day <= day
    /\ day <= result.week_end.day
    /\ IsMonday(day) => result.week_start.day = day
    /\ IsSunday(day) => result.week_end.day = day

C15_WeekOfEveryDate ==
    call.op = "get_week_range" => IsWeekOf(ret, call.target_date.day)

(***************************************************************************)
(* C15, amended: for every calendar date d up to 9999-12-26 (the last      *)
(* Sunday of the calendar) get_week_range(d) returns the Monday..Sunday    *)
(* week that holds d, as stated; for the five dates after it               *)
(* (9999-12-27 .. 9999-12-31) it returns nothing and raises OverflowError. *)
(***************************************************************************)
LAST_SUNDAY == MAX_ORDINAL - 5

C15_WeekOfDate ==
    call.op = "get_week_range" =>
        IF call.target_date.day <= LAST_SUNDAY
        THEN IsWeekOf(ret, call.target_date.day)
        ELSE ret = OverflowError

\* Wednesday 2025-01-15, as in the tests: 2025-01-13 .. 2025-01-19
C15_Witness ==
    /\ call.op = "get_week_range"
    /\ call.target_date.day = CLOCK_BASE + 2
    /\ ret.type = "pair"
    /\ ret.week_start.day = CLOCK_BASE
    /\ ret.week_end.day = CLOCK_BASE + 6

(***************************************************************************)
(* C16: for every today, get_previous_week_range returns the window of     *)
(* get_week_range(today) moved back by 7 days, a Monday..Sunday window     *)
(* that ends before today; the scheduler's copy of the function returns    *)
(* the same window as the service's for the same today.                    *)
(***************************************************************************)
ShiftedBack(window, days) ==
    [type       |-> "pair",
     week_start |-> DateObj(window.week_start.day - days),
     week_end   |-> DateObj(window.week_end.day - days)]

C16_PreviousWeek ==
    /\ call.op = "get_previous_week_range" =>
           /\ get_week_range(call.today).type = "pair"
           /\ ret = ShiftedBack(get_week_range(call.today), 7)
           /\ IsMonday(ret.week_start.day)
           /\ IsSunday(ret.week_end.day)
           /\ ret.week_end.day = ret.week_start.day + 6
           /\ ret.week_end.day < call.today.day
           /\ call.today.day - ret.week_end.day <= 7
           /\ ret = scheduler_get_previous_week_range(call.today)
    /\ call.op = "scheduler_get_previous_week_range" =>
           /\ ret.type = "pair"
           /\ ret = get_previous_week_range(call.today)

\* Sunday 2025-01-19: the previous week is 2025-01-06 .. 2025-01-12
C16_Witness ==
    /\ call.op = "get_previous_week_range"
    /\ call.today.day = CLOCK_BASE + 6
    /\ ret.type = "pair"
    /\ ret.week_start.day = CLOCK_BASE - 7
    /\ ret.week_end.day = CLOCK_BASE - 1

(***************************************************************************)
(* SpecCalls: generate_report called by two requests whose calls overlap,  *)
(* statement by statement, on one service object, while the clock runs.    *)
(* ReportAnalysisService has no __init__ and assigns no attribute of self: *)
(* all a call has is its arguments and its locals.  A request that has its *)
(* result may call again.  The lists a call changes in place               *)
(* (feedback.extend, feedback.insert) are objects: the list generate_      *)
(* feedback made, or a list of the caller.                                 *)
(***************************************************************************)
MaxTicks == 2

Requests == {"r1", "r2"}

CallEntry ==
    [id |-> 1, content |-> [text |-> "c1", len |-> 30],
     record_date |-> DateObj(1), tags |-> <<TagExercise, TagSunny>>]

CallArgs ==
    [user_id    : {"user-1"},
     nickname   : {"nick"},
     week_start : {DateObj(1)},
     week_end   : {DateObj(1), DateObj(2)},
     entries    : {<<>>, <<CallEntry>>},
     analysis   : {MakeAnalysis(<<7500>>, <<Text("r1")>>),
                   MakeAnalysis(<<4875, 5000>>, <<>>)}]

Unbound == <<>>

NoLocals ==
    [average_score |-> Unbound, evaluation |-> Unbound, daily_analysis |-> Unbound,
     patterns |-> Unbound, feedback |-> Unbound, days_in_week |-> Unbound,
     has_partial_data |-> Unbound]

\* given: the arguments as they were passed; args: the caller's objects now
Idle ==
    [pc |-> "idle", again |-> FALSE, given |-> Unbound, args |-> Unbound,
     locals |-> NoLocals, result |-> Unbound]

\* Variant: the calls keep their locals in one place: a call sees the
\* locals another call has bound.
Locals_Shared(r) ==
    LET others == {o \in Requests \ {r} : calls[o].pc \in {"warning", "return", "done"}}
    IN  IF others = {} THEN calls[r].locals
        ELSE calls[CHOOSE o \in others : TRUE].locals

\* The locals of the call of request r.
Locals(r) == calls[r].locals

\* Variant: the feedback is built in the caller's recommendations list.
FeedbackObject_Recommendations(r) == "recommendations"

\* feedback = [] in generate_feedback: a list of its own
FeedbackObject(r) == "feedback"

\* The list an object name stands for.
ListOf(r, object) ==
    IF object = "feedback" THEN Locals(r).feedback
    ELSE calls[r].args.analysis.recommendations

\* calls after list object of request r has been given the value list
WithList(r, object, list, pc) ==
    IF object = "feedback"
    THEN [calls EXCEPT ![r].locals = [Locals(r) EXCEPT !.feedback = list],
                       ![r].pc = pc]
    ELSE [calls EXCEPT ![r].locals = [Locals(r) EXCEPT !.feedback = list],
                       ![r].args.analysis.recommendations = list,
                       ![r].pc = pc]

\* calls after local name of request r has been bound to value
WithLocal(r, name, value, pc) ==
    [calls EXCEPT ![r].locals = [Locals(r) EXCEPT ![name] = value], ![r].pc = pc]

\* Variant: the week is counted up to today.
DaysInWeekOfCall_UpToToday(r) == now - calls[r].args.week_start.day + 1

DaysInWeekOfCall(r) ==
    DaysInWeek(calls[r].args.week_start, calls[r].args.week_end)

InitCalls ==
    /\ entries = <<>>
    /\ analysis = MakeAnalysis(<<>>, <<>>)
    /\ week_start = DateObj(1)
    /\ week_end = DateObj(7)
    /\ call = NoCall
    /\ ret = << >>
    /\ now = 0
    /\ calls = [r \in Requests |-> Idle]
    /\ NoStoredReports

Tick ==
    /\ now < MaxTicks
    /\ now' = now + 1
    /\ UNCHANGED <<inputs, call, ret, calls, stored>>

\* report_service.generate_report(...) is entered
CallGenerateReport(r) ==
    /\ calls[r].pc \in {"idle", "done"}
    /\ \E a \in CallArgs :
           calls' = [calls EXCEPT ![r] =
                        [pc |-> "average_score", again |-> calls[r].pc = "done",
                         given |-> a, args |-> a, locals |-> NoLocals,
                         result |-> Unbound]]

StepAverageScore(r) ==
    /\ calls[r].pc = "average_score"
    /\ calls' = WithLocal(r, "average_score",
                          calculate_average_score(calls[r].args.analysis.daily_scores),
                          "evaluation")

StepEvaluation(r) ==
    /\ calls[r].pc = "evaluation"
    /\ calls' = WithLocal(r, "evaluation",
                          determine_evaluation_type(Locals(r).average_score),
                          "daily_analysis")

StepDailyAnalysis(r) ==
    /\ calls[r].pc = "daily_analysis"
    /\ calls' = WithLocal(r, "daily_analysis",
                          create_daily_analysis(calls[r].args.entries,
                                                calls[r].args.analysis.daily_scores),
                          "patterns")

StepPatterns(r) ==
    /\ calls[r].pc = "patterns"
    /\ calls' = WithLocal(r, "patterns",
                          identify_patterns(calls[r].args.entries,
                                            calls[r].args.analysis.daily_scores),
                          "feedback")

StepFeedback(r) ==
    /\ calls[r].pc = "feedback"
    /\ calls' = WithList(r, FeedbackObject(r),
                         generate_feedback(calls[r].args.entries,
                                           calls[r].args.analysis.daily_scores,
                                           Locals(r).patterns, Locals(r).evaluation),
                         "recommendations")

\* if analysis.recommendations: feedback.extend(analysis.recommendations)
StepRecommendations(r) ==
    /\ calls[r].pc = "recommendations"
    /\ calls' = IF calls[r].args.analysis.recommendations # <<>>
                THEN WithList(r, FeedbackObject(r),
                              ListOf(r, FeedbackObject(r))
                                  \o calls[r].args.analysis.recommendations,
                              "days_in_week")
                ELSE [calls EXCEPT ![r].pc = "days_in_week"]

StepDaysInWeek(r) ==
    /\ calls[r].pc = "days_in_week"
    /\ calls' = WithLocal(r, "days_in_week", DaysInWeekOfCall(r), "has_partial_data")

StepHasPartialData(r) ==
    /\ calls[r].pc = "has_partial_data"
    /\ calls' = WithLocal(r, "has_partial_data",
                          HasPartialData(calls[r].args.entries, Locals(r).days_in_week),
                          "warning")

\* if has_partial_data: feedback.insert(0, ...)
StepWarning(r) ==
    /\ calls[r].pc = "warning"
    /\ calls' = IF Locals(r).has_partial_data
                THEN WithList(r, FeedbackObject(r),
                              InsertWarning(ListOf(r, FeedbackObject(r)),
                                            Locals(r).days_in_week,
                                            Len(calls[r].args.entries)),
                              "return")
                ELSE [calls EXCEPT ![r].pc = "return"]

StepReturn(r) ==
    /\ calls[r].pc = "return"
    /\ calls' = [calls EXCEPT
           ![r].pc = "done",
           ![r].result =
               [user_id          |-> calls[r].args.user_id,
                nickname         |-> calls[r].args.nickname,
                week_start       |-> calls[r].args.week_start,
                week_end         |-> calls[r].args.week_end,
                average_score    |-> Locals(r).average_score,
                evaluation       |-> Locals(r).evaluation,
                daily_analysis   |-> Locals(r).daily_analysis,
                patterns         |-> Locals(r).patterns,
                feedback         |-> ListOf(r, FeedbackObject(r)),
                has_partial_data |-> Locals(r).has_partial_data]]

StepOfCall(r) ==
    \/ StepAverageScore(r) \/ StepEvaluation(r) \/ StepDailyAnalysis(r)
    \/ StepPatterns(r) \/ StepFeedback(r) \/ StepRecommendations(r)
    \/ StepDaysInWeek(r) \/ StepHasPartialData(r) \/ StepWarning(r)
    \/ StepReturn(r)

RequestStep ==
    /\ \E r \in Requests : CallGenerateReport(r) \/ StepOfCall(r)
    /\ UNCHANGED <<inputs, call, ret, now, stored>>

NextCalls == Tick \/ RequestStep

SpecCalls == InitCalls /\ [][NextCalls]_vars

(***************************************************************************)
(* C17: generate_report is deterministic: two calls with the same          *)
(* (user_id, nickname, week_start, week_end, entries, analysis) return the *)
(* same WeeklyReportResult in every field, whatever the time of the call   *)
(* and whatever calls the service object served before.                    *)
(***************************************************************************)
Returned(r) == calls[r].pc = "done"

C17_Deterministic ==
    \A r1, r2 \in Requests :
        (Returned(r1) /\ Returned(r2) /\ calls[r1].given = calls[r2].given)
            => calls[r1].result = calls[r2].result

\* the same arguments, one call a first call, the other a later call that
\* returned after the clock had moved
C17_Witness ==
    /\ Returned("r1") /\ Returned("r2")
    /\ calls["r1"].given = calls["r2"].given
    /\ ~calls["r1"].again
    /\ calls["r2"].again
    /\ now = MaxTicks
    /\ calls["r1"].result = calls["r2"].result
    /\ calls["r1"].result.has_partial_data
    /\ calls["r1"].result.patterns # <<>>

(***************************************************************************)
(* C18: generate_report leaves its arguments as they were: the entries     *)
(* list and every entry, analysis.daily_scores and                         *)
(* analysis.recommendations are unchanged during and after the call; in    *)
(* particular adding the recommendations and the warning to the feedback   *)
(* does not change analysis.recommendations.                               *)
(***************************************************************************)
C18_ArgumentsUnchanged ==
    \A r \in Requests :
        calls[r].pc # "idle" =>
            /\ calls[r].args.entries = calls[r].given.entries
            /\ calls[r].args.analysis.daily_scores = calls[r].given.analysis.daily_scores
            /\ calls[r].args.analysis.recommendations
                   = calls[r].given.analysis.recommendations
            /\ calls[r].args = calls[r].given

\* a call that returned a feedback with the warning and the recommendations
C18_Witness ==
    \E r \in Requests :
        /\ Returned(r)
        /\ calls[r].given.analysis.recommendations # <<>>
        /\ calls[r].result.has_partial_data
        /\ IsWarning(Head(calls[r].result.feedback))
        /\ calls[r].result.feedback[Len(calls[r].result.feedback)]
               = calls[r].given.analysis.recommendations[1]
        /\ calls[r].args.analysis.recommendations
               = calls[r].given.analysis.recommendations

(***************************************************************************)
(* C19: calls of generate_report by independent requests, their statements *)
(* interleaved in any order on one service object, each return what the    *)
(* call returns when it runs alone.                                        *)
(***************************************************************************)
ResultAlone(a) ==
    generate_report(a.user_id, a.nickname, a.week_start, a.week_end,
                    a.entries, a.analysis)

C19_SameAsAlone ==
    \A r \in Requests :
        Returned(r) => calls[r].result = ResultAlone(calls[r].given)

\* r1 has returned while r2, with other arguments, is in the middle of its
\* call and r1 entered after r2 had begun
C19_Witness ==
    /\ Returned("r1")
    /\ calls["r1"].result = ResultAlone(calls["r1"].given)
    /\ calls["r2"].pc \in {"patterns", "feedback", "recommendations", "warning"}
    /\ calls["r2"].given # calls["r1"].given
    /\ calls["r1"].result.evaluation # calls["r2"].locals.evaluation

(***************************************************************************)
(* SpecUnchecked: generate_report called directly, with any window (also   *)
(* week_start after week_end) and with dates that are no ISO dates.        *)
(***************************************************************************)
\* the str "2025-13-45"
NotADate == [type |-> "str", text |-> "2025-13-45"]

UncheckedEntries ==
    {<<>>, <<CallEntry>>, <<[CallEntry EXCEPT !.record_date = NotADate]>>}

UncheckedAnalyses ==
    {MakeAnalysis(<<7500>>, <<>>),
     [MakeAnalysis(<<7500>>, <<>>) EXCEPT !.daily_scores[1].date = NotADate]}

WindowDays == 1..4

InitUnchecked ==
    /\ entries \in UncheckedEntries
    /\ analysis \in UncheckedAnalyses
    /\ week_start \in {DateObj(d) : d \in WindowDays}
    /\ week_end \in {DateObj(d) : d \in WindowDays}
    /\ call = NoCall
    /\ ret = << >>
    /\ NoOverlappingCalls
    /\ NoStoredReports

GenerateReportUnchecked ==
    /\ call = NoCall
    /\ ret' = generate_report("user-1", "nick", week_start, week_end, entries, analysis)
    /\ call' = [op |-> "generate_report", evaluation |-> "none"]
    /\ UNCHANGED <<inputs, overlapping, stored>>

NextUnchecked == GenerateReportUnchecked

SpecUnchecked == InitUnchecked /\ [][NextUnchecked]_vars

(***************************************************************************)
(* C20: generate_report rejects invalid input: called with week_start      *)
(* after week_end, or with a DailyScore date or an entry date that is no   *)
(* valid ISO date, it fails with an input-validation error and returns no  *)
(* WeeklyReportResult.                                                     *)
(***************************************************************************)
InvalidInput ==
    \/ week_start.day > week_end.day
    \/ \E i \in 1..Len(DailyScoreList) : "day" \notin DOMAIN DailyScoreList[i].date
    \/ \E e \in 1..Len(entries) : "day" \notin DOMAIN entries[e].record_date

IsReport(x) == "has_partial_data" \in DOMAIN x

C20_InvalidInputRejected ==
    (call.op = "generate_report" /\ InvalidInput) => ~IsReport(ret)


(***************************************************************************)
(* ReportRepository (app/repositories/report_repository.py) over the       *)
(* weekly_reports table.  A row is the WeeklyReport save_report builds; its *)
(* id is its place in the table (autoincrement, no row is ever deleted).   *)
(* created_at is left out: nothing below reads it.                         *)
(***************************************************************************)
None == [type |-> "NoneType"]

Str(s) == [type |-> "str", text |-> s]

\* `if x:` for an Optional[str]
Truthy(x) == x.type = "str" /\ x.text # ""

\* what a repository method leaves behind and what it returns
Outcome(table, value) == [table |-> table, value |-> value]

save_report(table, user_id, nickname, w_start, w_end, average_score, evaluation, daily_analysis, patterns, feedback, s3_key, status) ==
    LET report == [user_id        |-> user_id,
                   nickname       |-> nickname,
                   week_start     |-> w_start,
                   week_end       |-> w_end,
                   average_score  |-> average_score,
                   evaluation     |-> evaluation,
                   daily_analysis |-> daily_analysis,
                   patterns       |-> patterns,
                   feedback       |-> feedback,
                   s3_key         |-> s3_key,
                   status         |-> status]
    IN  Outcome(Append(table, report), Len(table) + 1)

get_report_by_id(table, report_id) ==
    IF report_id \in DOMAIN table THEN table[report_id] ELSE None

update_report(table, report_id, average_score, evaluation, daily_analysis, patterns, feedback, s3_key, status) ==
    IF get_report_by_id(table, report_id) = None THEN Outcome(table, None)
    ELSE LET report == [table[report_id] EXCEPT
                            !.average_score  = average_score,
                            !.evaluation     = evaluation,
                            !.daily_analysis = daily_analysis,
                            !.patterns       = patterns,
                            !.feedback       = feedback,
                            !.status         = status,
                            !.s3_key         = IF Truthy(s3_key) THEN s3_key ELSE @]
         IN  Outcome([table EXCEPT ![report_id] = report], report)

\* Variant: the status is written and the message is dropped.
update_report_status_StatusOnly(table, report_id, status, error_message) ==
    IF get_report_by_id(table, report_id) = None THEN Outcome(table, None)
    ELSE LET report == [table[report_id] EXCEPT !.status = status]
         IN  Outcome([table EXCEPT ![report_id] = report], report)

update_report_status(table, report_id, status, error_message) ==
    IF get_report_by_id(table, report_id) = None THEN Outcome(table, None)
    ELSE LET report == [table[report_id] EXCEPT
                            !.status   = status,
                            !.feedback = IF Truthy(error_message)
                                         THEN <<error_message>> ELSE @]
         IN  Outcome([table EXCEPT ![report_id] = report], report)

report_exists_for_week(table, user_id, w_start, w_end) ==
    \E i \in DOMAIN table :
        /\ table[i].user_id = user_id
        /\ table[i].week_start = w_start
        /\ table[i].week_end = w_end

(***************************************************************************)
(* SpecRepository: the repository's writes on a small table.               *)
(***************************************************************************)
MaxReports == 2

ReportIds == 1..(MaxReports + 1)

Statuses == {"processing", "completed", "failed"}

ErrorMessages == {None, Str(""), Str("error")}

StorageKeys == {None, Str("u/2025/01/report_2025-01-22.txt")}

\* the feedback of the row create_report saves first (report.py line 217)
PROCESSING_FEEDBACK == <<Text("processing")>>

\* rows as the create endpoints and the background task leave them
StoredRows ==
    { save_report(<<>>, "user-1", "nick", DateObj(CLOCK_BASE), DateObj(CLOCK_BASE + 6),
                  0, "positive", <<>>, <<>>, PROCESSING_FEEDBACK, None,
                  "processing").table[1],
      save_report(<<>>, "user-2", "nick", DateObj(CLOCK_BASE), DateObj(CLOCK_BASE + 6),
                  7500, "positive", <<>>, <<>>, <<Text("r1")>>,
                  Str("u/2025/01/report_2025-01-22.txt"), "completed").table[1],
      save_report(<<>>, "user-1", "nick", DateObj(CLOCK_BASE), DateObj(CLOCK_BASE + 6),
                  0, "positive", <<>>, <<>>, <<Str("error")>>, None,
                  "failed").table[1] }

InitRepository ==
    /\ entries = <<>>
    /\ analysis = MakeAnalysis(<<>>, <<>>)
    /\ week_start = DateObj(CLOCK_BASE)
    /\ week_end = DateObj(CLOCK_BASE + 6)
    /\ call = NoCall
    /\ ret = << >>
    /\ NoOverlappingCalls
    /\ reports \in SeqsUpTo(StoredRows, MaxReports)
    /\ tasks = <<>>

SaveReport ==
    /\ call = NoCall
    /\ \E user_id \in {"user-1", "user-2"}, status \in Statuses :
        LET done == save_report(reports, user_id, "nick", week_start, week_end, 0,
                                "positive", <<>>, <<>>, PROCESSING_FEEDBACK,
                                None, status)
        IN  /\ reports' = done.table
            /\ ret' = done.value
            /\ call' = [op |-> "save_report", report_id |-> done.value,
                        before |-> reports]
    /\ UNCHANGED <<inputs, overlapping, tasks>>

UpdateReport ==
    /\ call = NoCall
    /\ \E report_id \in ReportIds, s3_key \in StorageKeys :
        LET done == update_report(reports, report_id, 7500,
                                  determine_evaluation_type(7500), <<>>, <<>>,
                                  <<Text("r1")>>, s3_key, "completed")
        IN  /\ reports' = done.table
            /\ ret' = done.value
            /\ call' = [op |-> "update_report", report_id |-> report_id,
                        before |-> reports]
    /\ UNCHANGED <<inputs, overlapping, tasks>>

UpdateReportStatus ==
    /\ call = NoCall
    /\ \E report_id \in ReportIds, status \in Statuses, error_message \in ErrorMessages :
        LET done == update_report_status(reports, report_id, status, error_message)
        IN  /\ reports' = done.table
            /\ ret' = done.value
            /\ call' = [op |-> "update_report_status", report_id |-> report_id,
                        status |-> status, error_message |-> error_message,
                        before |-> reports]
    /\ UNCHANGED <<inputs, overlapping, tasks>>

NextRepository == SaveReport \/ UpdateReport \/ UpdateReportStatus

SpecRepository == InitRepository /\ [][NextRepository]_vars

\* C24: update_report_status on an existing report sets its status to the
\* given value, makes [error_message] the feedback when the message is not
\* empty and leaves the feedback alone otherwise, and changes no other field
\* and no other report; for an unknown report_id it returns None and no row
\* changes.
C24_UpdateReportStatus ==
    call.op = "update_report_status" =>
        IF call.report_id \in DOMAIN call.before
        THEN /\ DOMAIN reports = DOMAIN call.before
             /\ \A i \in DOMAIN reports \ {call.report_id} : reports[i] = call.before[i]
             /\ reports[call.report_id] =
                    [call.before[call.report_id] EXCEPT
                        !.status   = call.status,
                        !.feedback =
                            IF call.error_message \in {None, Str("")} THEN @
                            ELSE <<call.error_message>>]
             /\ ret = reports[call.report_id]
        ELSE ret = None /\ reports = call.before

\* a failed status with a message is written over a completed report that
\* has a storage key
C24_Witness ==
    /\ call.op = "update_report_status"
    /\ call.report_id \in DOMAIN call.before
    /\ call.before[call.report_id].status = "completed"
    /\ call.before[call.report_id].s3_key # None
    /\ call.status = "failed"
    /\ call.error_message = Str("error")
    /\ reports[call.report_id].feedback = <<Str("error")>>
    /\ Len(reports) = 2


(***************************************************************************)
(* EmailService.send_report_notification (app/services/email_service.py    *)
(* lines 116-173), one statement group per step.  call holds the locals:   *)
(* attempt is the loop variable, sent counts the send_email calls made,    *)
(* slept is the time spent in time.sleep, errors are the exceptions caught *)
(* so far (last_error is the last of them, each is logged as a warning).   *)
(***************************************************************************)
retry_delays == <<1, 2>>

IndexError == [type |-> "raised", error |-> "IndexError"]

Bool(b) == [type |-> "bool", value |-> b]

SendErrors == {"Throttling", "MessageRejected", "EndpointConnectionError"}

MaxRetries == 4

\* max_retries = 2 is the default, the only value the routes use
RetryArguments == 0..MaxRetries

InitEmail ==
    /\ entries = <<>>
    /\ analysis = MakeAnalysis(<<>>, <<>>)
    /\ week_start = DateObj(CLOCK_BASE)
    /\ week_end = DateObj(CLOCK_BASE + 6)
    /\ call = NoCall
    /\ ret = << >>
    /\ NoOverlappingCalls
    /\ NoStoredReports

\* the call is entered: retry_delays, last_error = None, the loop starts
SendReportNotification ==
    /\ call = NoCall
    /\ \E max_retries \in RetryArguments :
        call' = [op |-> "send_report_notification", max_retries |-> max_retries,
                 pc |-> "attempt", attempt |-> 0, sent |-> 0, slept |-> 0,
                 errors |-> <<>>]
    /\ UNCHANGED <<inputs, ret, overlapping, stored>>

\* self.client.send_email(...) returns: log, return True
SendEmailReturns ==
    /\ call.op = "send_report_notification"
    /\ call.pc = "attempt"
    /\ call' = [call EXCEPT !.pc = "done", !.sent = @ + 1]
    /\ ret' = Bool(TRUE)
    /\ UNCHANGED <<inputs, overlapping, stored>>

\* self.client.send_email(...) raises: the except block, then the next round
\* of the loop or, after the last round, return False
SendEmailRaises ==
    /\ call.op = "send_report_notification"
    /\ call.pc = "attempt"
    /\ \E e \in SendErrors :
        LET failed == [call EXCEPT !.sent = @ + 1, !.errors = Append(@, e)]
        IN  IF call.attempt < call.max_retries
            THEN IF call.attempt + 1 \in DOMAIN retry_delays
                 THEN /\ call' = [failed EXCEPT
                                     !.slept = @ + retry_delays[call.attempt + 1],
                                     !.attempt = @ + 1]
                      /\ ret' = ret
                 ELSE /\ call' = [failed EXCEPT !.pc = "done"]
                      /\ ret' = IndexError
            ELSE /\ call' = [failed EXCEPT !.pc = "done"]
                 /\ ret' = Bool(FALSE)
    /\ UNCHANGED <<inputs, overlapping, stored>>

NextEmail == SendReportNotification \/ SendEmailReturns \/ SendEmailRaises

SpecEmail == InitEmail /\ [][NextEmail]_vars

\* C28: for every max_retries >= 0 send_report_notification does not raise:
\* it makes at most max_retries + 1 send attempts, returns True at the first
\* attempt that succeeds and False after max_retries + 1 failed attempts.
C28_NeverRaises ==
    call.op = "send_report_notification" =>
        /\ call.sent <= call.max_retries + 1
        /\ call.pc = "done" =>
            /\ ~Raised(ret)
            /\ ret = Bool(FALSE) => call.sent = call.max_retries + 1


(***************************************************************************)
(* lambda_handler of the weekly report scheduler                           *)
(* (lambda/weekly_report_scheduler/lambda_function.py lines 123-212).      *)
(* call holds the run's locals: the eligible users, the place i of the     *)
(* loop, results, the users generation was invoked for, log, the branch    *)
(* each processed user took (each branch writes one log line), and         *)
(* obtained: whether get_eligible_users returned.                          *)
(***************************************************************************)
\* Variant: any report of the user counts, whatever its week.
check_report_exists_AnyWeek(table, user_id, w_start, w_end) ==
    \E i \in DOMAIN table : table[i].user_id = user_id

\* SELECT 1 FROM weekly_reports WHERE user_id, week_start, week_end match
check_report_exists(table, user_id, w_start, w_end) ==
    \E i \in DOMAIN table :
        /\ table[i].user_id = user_id
        /\ table[i].week_start = w_start
        /\ table[i].week_end = w_end

\* invoke_report_generation: nothing in its try block raises
invoke_report_generation(user_id, w_start, w_end) ==
    [success |-> TRUE, user_id |-> user_id, week_start |-> w_start, week_end |-> w_end]

NoResults ==
    [total_users |-> 0, success_count |-> 0, skip_count |-> 0, error_count |-> 0,
     errors |-> <<>>]

MaxUsers == 3

SchedulerUsers == {"user-1", "user-2", "user-3"}

\* SELECT DISTINCT u.user_id, ...: no user twice
EligibleUsers ==
    {us \in SeqsUpTo(SchedulerUsers, MaxUsers) :
        \A i, j \in DOMAIN us : i # j => us[i] # us[j]}

\* the run is on Wednesday 2025-01-22: last week is 2025-01-13..2025-01-19
SCHEDULER_TODAY == CLOCK_BASE + 9

SchedulerRow(user_id, monday) ==
    save_report(<<>>, user_id, "nick", DateObj(monday), DateObj(monday + 6), 7500,
                "positive", <<>>, <<>>, <<Text("r1")>>, None, "completed").table[1]

SchedulerRows ==
    { SchedulerRow("user-1", CLOCK_BASE), SchedulerRow("user-2", CLOCK_BASE),
      SchedulerRow("user-2", CLOCK_BASE - 7) }

InitScheduler ==
    /\ entries = <<>>
    /\ analysis = MakeAnalysis(<<>>, <<>>)
    /\ week_start = DateObj(CLOCK_BASE)
    /\ week_end = DateObj(CLOCK_BASE + 6)
    /\ call = NoCall
    /\ ret = << >>
    /\ NoOverlappingCalls
    /\ reports \in SeqsUpTo(SchedulerRows, MaxReports)
    /\ tasks = <<>>

\* lines 133-153: the week, the connection, the eligible users
LambdaHandler ==
    /\ call = NoCall
    /\ \E users \in EligibleUsers :
        LET week == scheduler_get_previous_week_range(DateObj(SCHEDULER_TODAY))
        IN  call' = [op |-> "lambda_handler", pc |-> "loop",
                     week_start |-> week.week_start, week_end |-> week.week_end,
                     obtained |-> TRUE, users |-> users, i |-> 1,
                     results |-> [NoResults EXCEPT !.total_users = Len(users)],
                     invoked |-> <<>>, log |-> <<>>]
    /\ UNCHANGED <<inputs, ret, overlapping, stored>>

\* lines 146-153 raise (no connection, or the query fails): the outer except
LambdaHandlerFails ==
    /\ call = NoCall
    /\ LET week == scheduler_get_previous_week_range(DateObj(SCHEDULER_TODAY))
       IN  call' = [op |-> "lambda_handler", pc |-> "return",
                    week_start |-> week.week_start, week_end |-> week.week_end,
                    obtained |-> FALSE, users |-> <<>>, i |-> 1,
                    results |-> [NoResults EXCEPT
                                    !.errors = <<[global_error |-> "OperationalError"]>>],
                    invoked |-> <<>>, log |-> <<>>]
    /\ UNCHANGED <<inputs, ret, overlapping, stored>>

\* lines 156-189: one round of the loop; check_report_exists may raise
ProcessUser ==
    /\ call.op = "lambda_handler"
    /\ call.pc = "loop"
    /\ call.i <= Len(call.users)
    /\ LET user_id == call.users[call.i]
           next    == [call EXCEPT !.i = @ + 1]
       IN  \/ call' = [next EXCEPT
                          !.results.error_count = @ + 1,
                          !.results.errors =
                              Append(@, [user_id |-> user_id, error |-> "OperationalError"]),
                          !.log = Append(@, "error")]
           \/ /\ check_report_exists(reports, user_id, call.week_start, call.week_end)
              /\ call' = [next EXCEPT !.results.skip_count = @ + 1,
                                      !.log = Append(@, "skip")]
           \/ /\ ~check_report_exists(reports, user_id, call.week_start, call.week_end)
              /\ LET result == invoke_report_generation(user_id, call.week_start,
                                                        call.week_end)
                 IN  IF result.success
                     THEN call' = [next EXCEPT
                                      !.results.success_count = @ + 1,
                                      !.invoked = Append(@, user_id),
                                      !.log = Append(@, "success")]
                     ELSE call' = [next EXCEPT
                                      !.results.error_count = @ + 1,
                                      !.invoked = Append(@, user_id),
                                      !.log = Append(@, "error")]
    /\ UNCHANGED <<inputs, ret, overlapping, stored>>

\* the loop is over
LoopEnds ==
    /\ call.op = "lambda_handler"
    /\ call.pc = "loop"
    /\ call.i > Len(call.users)
    /\ call' = [call EXCEPT !.pc = "return"]
    /\ UNCHANGED <<inputs, ret, overlapping, stored>>

\* lines 195-212: close, log, return
LambdaHandlerReturns ==
    /\ call.op = "lambda_handler"
    /\ call.pc = "return"
    /\ call' = [call EXCEPT !.pc = "done"]
    /\ ret' = [statusCode |-> 200,
               week_period |-> [start |-> isoformat(call.week_start),
                                end |-> isoformat(call.week_end)],
               results |-> call.results]
    /\ UNCHANGED <<inputs, overlapping, stored>>

NextScheduler ==
    \/ LambdaHandler \/ LambdaHandlerFails \/ ProcessUser \/ LoopEnds
    \/ LambdaHandlerReturns

SpecScheduler == InitScheduler /\ [][NextScheduler]_vars

Count(log, outcome) == Cardinality({i \in DOMAIN log : log[i] = outcome})

HasReportForLastWeek(user_id) ==
    \E i \in DOMAIN reports :
        /\ reports[i].user_id = user_id
        /\ reports[i].week_start = DateObj(CLOCK_BASE)
        /\ reports[i].week_end = DateObj(CLOCK_BASE + 6)

\* C27: in a scheduler run that got its eligible users, the users are
\* processed one by one in list order, each once, and each is counted in
\* exactly one of success_count, skip_count and error_count, so the three add
\* up to total_users at the end; a user whose processing raised is counted as
\* an error and the users after them are still processed; a user who has a
\* report for the week is skipped or counted as an error, and generation is
\* invoked exactly for the users counted as successes.
C27_SchedulerRun ==
    (call.op = "lambda_handler" /\ call.obtained) =>
        /\ Len(call.log) = call.i - 1
        /\ call.results.success_count = Count(call.log, "success")
        /\ call.results.skip_count = Count(call.log, "skip")
        /\ call.results.error_count = Count(call.log, "error")
        /\ Len(call.results.errors) = call.results.error_count
        /\ call.results.success_count + call.results.skip_count
               + call.results.error_count = Len(call.log)
        /\ \A i \in DOMAIN call.log :
               /\ call.log[i] = "skip" => HasReportForLastWeek(call.users[i])
               /\ call.log[i] = "success" => ~HasReportForLastWeek(call.users[i])
        /\ call.invoked =
               SelectSeq(call.users,
                         LAMBDA u : \E i \in DOMAIN call.log :
                                        call.users[i] = u /\ call.log[i] = "success")
        /\ call.pc \in {"return", "done"} =>
               /\ Len(call.log) = call.results.total_users
               /\ call.results.success_count + call.results.skip_count
                      + call.results.error_count = call.results.total_users
        /\ call.pc = "done" => ret.results = call.results

\* a run over three users: the first raises, the second is skipped, the
\* third gets a report generated
C27_Witness ==
    /\ call.op = "lambda_handler"
    /\ call.pc = "done"
    /\ call.log = <<"error", "skip", "success">>
    /\ ret.results.total_users = 3
    /\ ret.results.success_count = 1
    /\ ret.results.skip_count = 1
    /\ ret.results.error_count = 1
    /\ call.invoked = <<"user-3">>


(***************************************************************************)
(* StrandsAgentService.analyze_sentiment (app/services/strands_service.py  *)
(* lines 55-265).  What the agent runtime answers is a record:             *)
(*   outer    "raises": invoke_agent_runtime raised; "text": the answer is *)
(*            no JSON; "object": it is a JSON object; "other": it is JSON  *)
(*            of another kind (a list, a number)                           *)
(*   result   for an object: "absent", "str" (a string under the key       *)
(*            "result") or "null"                                          *)
(*   block    for a result string: the ```json block in it is "valid",     *)
(*            "invalid" (no JSON between the fences) or there is "none"    *)
(*   embedded what the brace patterns of lines 190 and 202 find in a text  *)
(*            without block: "valid" JSON, "invalid" JSON or "none"        *)
(*   data     the JSON object the answer carries where one is valid        *)
(* A JSON object is a record of the keys _parse_response reads; a key that *)
(* is absent has the default data.get gives it.  A day's score is a number *)
(* (numeric) or a string float() refuses; feedback is a list or null.      *)
(***************************************************************************)
DEFAULT_ANALYSIS_SCORE == 5000

Exception(name) == [type |-> "raised", error |-> name]

IsException(x) == "error" \in DOMAIN x

\* {}: also what the envelope {"result": ...} looks like to data.get
List(items) == [type |-> "list", items |-> items]

EmptyData == [daily_analysis |-> <<>>, patterns |-> <<>>, feedback |-> List(<<>>)]

\* lines 246-265
default_analysis(ents) ==
    [daily_scores      |-> [i \in 1..Len(ents) |->
                               [date       |-> RecordDateKey(ents[i]),
                                score      |-> DEFAULT_ANALYSIS_SCORE,
                                sentiment  |-> "done",
                                key_themes |-> ents[i].tags]],
     positive_patterns |-> <<>>,
     negative_patterns |-> <<>>,
     recommendations   |-> <<Text("default")>>]

\* lines 212-244: the analysis built from a parsed object
AnalysisOfData(data) ==
    IF \E i \in DOMAIN data.daily_analysis : ~data.daily_analysis[i].numeric
    THEN Exception("ValueError")
    ELSE IF data.feedback = None THEN Exception("TypeError")
    ELSE [daily_scores      |-> [i \in DOMAIN data.daily_analysis |->
                                    [date       |-> data.daily_analysis[i].date,
                                     score      |-> data.daily_analysis[i].score,
                                     sentiment  |-> "done",
                                     key_themes |-> <<>>]],
          positive_patterns |-> <<>>,
          negative_patterns |-> <<>>,
          recommendations   |-> data.feedback.items]

\* lines 200-210: except json.JSONDecodeError, the pattern \{[\s\S]*\} on
\* the whole answer; an answer that is a JSON object matches as a whole
JsonDecodeFallback(response, ents) ==
    IF response.outer = "object" THEN AnalysisOfData(EmptyData)
    ELSE IF response.embedded = "valid" THEN AnalysisOfData(response.data)
    ELSE default_analysis(ents)

\* lines 164-244
parse_response(response, ents) ==
    IF response.outer = "text" THEN JsonDecodeFallback(response, ents)
    ELSE IF response.outer = "other" THEN Exception("TypeError")
    ELSE IF response.result = "absent" THEN AnalysisOfData(response.data)
    ELSE IF response.result = "null" THEN Exception("TypeError")
    ELSE IF response.block = "valid" THEN AnalysisOfData(response.data)
    ELSE IF response.block = "invalid" THEN JsonDecodeFallback(response, ents)
    ELSE IF response.embedded = "valid" THEN AnalysisOfData(response.data)
    ELSE IF response.embedded = "invalid" THEN JsonDecodeFallback(response, ents)
    ELSE default_analysis(ents)

\* lines 123-162: the try block and its except Exception
analyze_sentiment(response, ents) ==
    IF response.outer = "raises" THEN default_analysis(ents)
    ELSE IF IsException(parse_response(response, ents)) THEN default_analysis(ents)
    ELSE parse_response(response, ents)

DayItem(score, numeric) ==
    [date |-> IsoStr(CLOCK_BASE), score |-> score, numeric |-> numeric]

AgentData ==
    { EmptyData,
      [EmptyData EXCEPT !.daily_analysis = <<DayItem(7500, TRUE)>>,
                        !.feedback = List(<<Text("r1")>>)],
      [EmptyData EXCEPT !.daily_analysis = <<DayItem(0, FALSE)>>],
      [EmptyData EXCEPT !.daily_analysis = <<DayItem(4000, TRUE)>>,
                        !.feedback = None] }

Response(outer, result, block, embedded, data) ==
    [outer |-> outer, result |-> result, block |-> block, embedded |-> embedded,
     data |-> data]

AgentResponses ==
    {Response("raises", "absent", "none", "none", EmptyData),
     Response("other", "absent", "none", "none", EmptyData),
     Response("object", "null", "none", "none", EmptyData)}
    \cup {Response("text", "absent", "none", e, EmptyData) : e \in {"none", "invalid"}}
    \cup {Response("text", "absent", "none", "valid", d) : d \in AgentData}
    \cup {Response("object", "absent", "none", "none", d) : d \in AgentData}
    \cup {Response("object", "str", "valid", "none", d) : d \in AgentData}
    \cup {Response("object", "str", "invalid", "none", EmptyData)}
    \cup {Response("object", "str", "none", e, EmptyData) : e \in {"none", "invalid"}}
    \cup {Response("object", "str", "none", "valid", d) : d \in AgentData}

\* entry_dicts of a request: at least one entry (the routes answer 400
\* without entries), in record_date order
SentimentEntries ==
    { <<CallEntry>>,
      <<[CallEntry EXCEPT !.record_date = DateObj(CLOCK_BASE)]>>,
      <<[CallEntry EXCEPT !.record_date = DateObj(CLOCK_BASE)],
        [CallEntry EXCEPT !.id = 2, !.record_date = DateObj(CLOCK_BASE + 1),
                          !.tags = <<>>]>> }

InitSentiment ==
    /\ entries \in SentimentEntries
    /\ analysis = MakeAnalysis(<<>>, <<>>)
    /\ week_start = DateObj(CLOCK_BASE)
    /\ week_end = DateObj(CLOCK_BASE + 6)
    /\ call = NoCall
    /\ ret = << >>
    /\ NoOverlappingCalls
    /\ NoStoredReports

\* analysis = strands.analyze_sentiment(entry_dicts, nickname)
AnalyzeSentiment ==
    /\ call = NoCall
    /\ \E response \in AgentResponses :
        /\ analysis' = analyze_sentiment(response, entries)
        /\ call' = [op |-> "analyze_sentiment", response |-> response]
    /\ UNCHANGED <<entries, week_start, week_end, ret, overlapping, stored>>

\* report_result = report_service.generate_report(..., analysis=analysis)
ReportOfAnalysis ==
    /\ call.op = "analyze_sentiment"
    /\ ret = << >>
    /\ ret' = generate_report("user-1", "nick", week_start, week_end, entries, analysis)
    /\ UNCHANGED <<inputs, call, overlapping, stored>>

NextSentiment == AnalyzeSentiment \/ ReportOfAnalysis

SpecSentiment == InitSentiment /\ [][NextSentiment]_vars

\* the agent did not answer, or its answer holds no JSON that json.loads
\* accepts where _parse_response looks for it
CannotBeParsed(response) ==
    \/ response.outer \in {"raises", "other"}
    \/ response.outer = "text" /\ response.embedded # "valid"
    \/ response.outer = "object" /\ response.result = "null"
    \/ /\ response.outer = "object"
       /\ response.result = "str"
       /\ \/ response.block = "invalid"
          \/ response.block = "none" /\ response.embedded # "valid"

\* C29: when the agent call raises or its answer cannot be parsed,
\* analyze_sentiment returns the default analysis: one DailyScore per entry,
\* in entry order, with the entry's ISO date and score 5.0; the report built
\* from it has average_score 5.0 and evaluation "positive".
C29_DefaultAnalysis ==
    (call.op = "analyze_sentiment" /\ CannotBeParsed(call.response)) =>
        /\ Len(analysis.daily_scores) = Len(entries)
        /\ \A i \in DOMAIN entries :
               /\ analysis.daily_scores[i].date = IsoStr(entries[i].record_date.day)
               /\ analysis.daily_scores[i].score = 5000
        /\ ret # << >> => ret.average_score = 5000 /\ ret.evaluation = "positive"


(***************************************************************************)
(* The routes (app/api/routes/report.py, app/api/routes/agent_report.py).  *)
(* A response is its status code and its content; HTTPException(code) is   *)
(* the response FastAPI makes of it.                                       *)
(***************************************************************************)
JSONResponse(status_code, data) == [status_code |-> status_code, data |-> data]

HTTPException(status_code) == JSONResponse(status_code, None)

\* WeeklyReport.to_dict()
to_dict(report_id, report) == [id |-> report_id, report |-> report]

\* GET /report/status/{report_id}
get_report_status(table, report_id, user_id) ==
    LET report == get_report_by_id(table, report_id)
    IN  IF report = None THEN HTTPException(404)
        ELSE IF report.user_id # user_id THEN HTTPException(403)
        ELSE JSONResponse(200, [report_id |-> report_id, status |-> report.status])

\* GET /report/{report_id}: the route get_report_by_id of report.py
report_get_report_by_id(table, report_id, user_id) ==
    LET report == get_report_by_id(table, report_id)
    IN  IF report = None THEN HTTPException(404)
        ELSE IF report.user_id # user_id THEN HTTPException(403)
        ELSE JSONResponse(200, to_dict(report_id, report))

\* GET /report/{report_id}/file; stored: s3_service.get_report returns
get_report_file(table, report_id, user_id, stored_file) ==
    LET report == get_report_by_id(table, report_id)
    IN  IF report = None THEN HTTPException(404)
        ELSE IF report.user_id # user_id THEN HTTPException(403)
        ELSE IF ~Truthy(report.s3_key) THEN HTTPException(404)
        ELSE IF ~stored_file THEN HTTPException(404)
        ELSE JSONResponse(200, [report_id |-> report_id, s3_key |-> report.s3_key])

\* GET /report/{report_id}/download-url; signed: generate_presigned_url returns
get_report_download_url(table, report_id, user_id, signed) ==
    LET report == get_report_by_id(table, report_id)
    IN  IF report = None THEN HTTPException(404)
        ELSE IF report.user_id # user_id THEN HTTPException(403)
        ELSE IF ~Truthy(report.s3_key) THEN HTTPException(404)
        ELSE IF ~signed THEN HTTPException(500)
        ELSE JSONResponse(200, [report_id |-> report_id, s3_key |-> report.s3_key])

\* _parse_request_intent: the keywords, tried in this order
create_keywords == << <<"saeng", "seong">>, <<"man", "deul", "eo">>, <<"jak", "seong">> >>

list_keywords == << <<"mok", "rok">>, <<"ri", "seu", "teu">>, <<"bo", "yeo", "jwo">> >>

detail_keywords == << <<"sang", "se">>, <<"jo", "hoe">>, <<"bo", "gi">> >>

parse_request_intent(content) ==
    LET content_lower == Lower(content)
        any(keywords) == \E i \in 1..Len(keywords) : Contains(keywords[i], content_lower)
    IN  IF any(create_keywords) THEN "create"
        ELSE IF any(list_keywords) THEN "list"
        ELSE IF any(detail_keywords) THEN "detail"
        ELSE "create"

\* a request text: None, or a str of syllables
Content(syllables) == [type |-> "str", text |-> syllables]

\* `if not content`
HasContent(content) == content.type = "str" /\ content.text # <<>>

IntValue(n) == [type |-> "int", value |-> n]

\* `if not report_id`
HasReportId(report_id) == report_id.type = "int" /\ report_id.value # 0

\* get_reports_by_user: the default of its limit
REPORT_LIST_LIMIT == 10

\* get_reports_by_user(user_id, limit=10): newest first
get_reports_by_user(table, user_id) ==
    LET ids == {i \in DOMAIN table : table[i].user_id = user_id}
        newest[k \in 0..Len(table)] ==
            IF k = 0 THEN <<>>
            ELSE IF k \in ids THEN <<to_dict(k, table[k])>> \o newest[k - 1]
            ELSE newest[k - 1]
    IN  Take(newest[Len(table)], REPORT_LIST_LIMIT)

\* POST /agent/report, intent "detail" (agent_report.py lines 190-210)
agent_detail(table, body) ==
    IF ~HasReportId(body.report_id) THEN HTTPException(400)
    ELSE LET report == get_report_by_id(table, body.report_id.value)
         IN  IF report = None THEN HTTPException(404)
             ELSE JSONResponse(200, to_dict(body.report_id.value, report))

\* POST /agent/report, intent "list" (agent_report.py lines 174-188)
agent_list(table, body) ==
    IF ~Truthy(body.user_id) THEN HTTPException(400)
    ELSE JSONResponse(200, get_reports_by_user(table, body.user_id.text))

(***************************************************************************)
(* Creating a report: POST /agent/report with the intent "create",         *)
(* POST /report/create, and the background task they add.                  *)
(***************************************************************************)
\* what a route leaves behind: its response, the table, the task it added
Handled(response, table, task) ==
    [response |-> response, table |-> table, task |-> task]

NoTask == [pc |-> "none"]

\* the users table; a user may have no nickname
UserRows ==
    [u \in {"user-1", "user-2"} |->
        [nickname |-> IF u = "user-1" THEN Str("nick") ELSE None,
         email    |-> IF u = "user-1" THEN "u1@example.com" ELSE "u2@example.com"]]

\* UserRepository.get_user_by_id
get_user_by_id(user_id) ==
    IF user_id \in DOMAIN UserRows THEN UserRows[user_id] ELSE None

\* the History table, in the order of its ids
HistoryRows ==
    << [user_id |-> "user-1",
        entry   |-> [CallEntry EXCEPT !.record_date = DateObj(CLOCK_BASE + 1),
                                      !.tags = <<>>]],
       [user_id |-> "user-1",
        entry   |-> [CallEntry EXCEPT !.id = 2, !.record_date = DateObj(CLOCK_BASE)]],
       [user_id |-> "user-2",
        entry   |-> [CallEntry EXCEPT !.id = 3, !.record_date = DateObj(CLOCK_BASE + 3)]] >>

\* HistoryRepository.get_entries_by_user_and_period: ordered by record_date
get_entries_by_user_and_period(history, user_id, start_date, end_date) ==
    LET found == {i \in DOMAIN history :
                    /\ history[i].user_id = user_id
                    /\ history[i].entry.record_date.day >= start_date.day
                    /\ history[i].entry.record_date.day <= end_date.day}
        place(i) == 1 + Cardinality({j \in found :
                        history[j].entry.record_date.day < history[i].entry.record_date.day})
    IN  [k \in 1..Cardinality(found) |->
            history[CHOOSE i \in found : place(i) = k].entry]

\* date.fromisoformat
fromisoformat(date_string) ==
    IF "day" \in DOMAIN date_string THEN DateObj(date_string.day)
    ELSE Exception("ValueError")

\* POST /agent/report, intent "create" (agent_report.py lines 212-299)
agent_create(table, body, today) ==
    IF ~Truthy(body.user_id) THEN Handled(HTTPException(400), table, NoTask)
    ELSE
    LET user_id == body.user_id.text
        user    == get_user_by_id(user_id)
    IN  IF user = None THEN Handled(HTTPException(404), table, NoTask)
        ELSE
        LET nickname == IF Truthy(user.nickname) THEN user.nickname.text ELSE user.email
            given    == body.start_date # None /\ body.end_date # None
            previous == get_previous_week_range(today)
            w_start  == IF given THEN fromisoformat(body.start_date)
                        ELSE previous.week_start
            w_end    == IF given THEN fromisoformat(body.end_date)
                        ELSE previous.week_end
        IN  IF IsException(w_start) \/ IsException(w_end)
            THEN Handled(HTTPException(500), table, NoTask)
            ELSE
            LET found == get_entries_by_user_and_period(HistoryRows, user_id,
                                                        w_start, w_end)
                saved == save_report(table, user_id, nickname, w_start, w_end,
                                     0, "positive", <<>>, <<>>, PROCESSING_FEEDBACK,
                                     None, "processing")
            IN  IF found = <<>> THEN Handled(HTTPException(400), table, NoTask)
                ELSE Handled(
                        JSONResponse(200, [report_id  |-> saved.value,
                                           status     |-> "processing",
                                           week_start |-> isoformat(w_start),
                                           week_end   |-> isoformat(w_end)]),
                        saved.table,
                        [pc         |-> "queued",
                         report_id  |-> saved.value,
                         user_id    |-> user_id,
                         nickname   |-> nickname,
                         email      |-> user.email,
                         week_start |-> w_start,
                         week_end   |-> w_end,
                         entries    |-> found,
                         failures   |-> {}])

\* POST /agent/report
process_report_request(table, body, today) ==
    IF ~HasContent(body.content) THEN Handled(HTTPException(400), table, NoTask)
    ELSE LET intent == parse_request_intent(body.content.text)
         IN  IF intent = "list" THEN Handled(agent_list(table, body), table, NoTask)
             ELSE IF intent = "detail"
             THEN Handled(agent_detail(table, body), table, NoTask)
             ELSE agent_create(table, body, today)

\* POST /report/create: CreateReportRequest has the fields start_date and
\* end_date only, so `request.user_id` (line 148) raises AttributeError
\* before anything is read or written.
create_report(table, request) == Handled(HTTPException(500), table, NoTask)

\* Variant: an upload failure ends the task's try block.
after_upload_Propagates(task, uploaded) ==
    IF IsException(uploaded)
    THEN [task EXCEPT !.pc = "handler", !.failures = @ \cup {"s3"}]
    ELSE [task EXCEPT !.pc = "update", !.s3_key = uploaded]

\* s3_key = None; try: s3_key = s3_service.upload_report(...)
\* except S3ServiceError: logger.warning(...)
after_upload(task, uploaded) ==
    IF IsException(uploaded)
    THEN [task EXCEPT !.pc = "update", !.s3_key = None, !.failures = @ \cup {"s3"}]
    ELSE [task EXCEPT !.pc = "update", !.s3_key = uploaded]

(***************************************************************************)
(* SpecService: two requests to the create endpoints and the background    *)
(* tasks they add, interleaved.  A collaborator (the agent, S3, the        *)
(* database, the mail service) returns or raises at each step.             *)
(***************************************************************************)
SERVICE_TODAY == CLOCK_BASE + 9

CreateContent == Content(<<"saeng", "seong">>)

RequestedWeeks ==
    { <<None, None>>,
      <<IsoStr(CLOCK_BASE), None>>,
      <<IsoStr(CLOCK_BASE), IsoStr(CLOCK_BASE + 6)>>,
      <<IsoStr(CLOCK_BASE), IsoStr(CLOCK_BASE + 1)>>,
      <<IsoStr(CLOCK_BASE + 6), IsoStr(CLOCK_BASE)>>,
      <<NotADate, IsoStr(CLOCK_BASE + 6)>> }

CreateBodies ==
    { [content    |-> content,
       user_id    |-> user_id,
       start_date |-> w[1],
       end_date   |-> w[2],
       report_id  |-> None] :
        content \in {CreateContent},
        user_id \in {None, Str("user-1"), Str("user-2"), Str("ghost")},
        w \in RequestedWeeks }
    \cup { [content |-> None, user_id |-> Str("user-1"), start_date |-> None,
            end_date |-> None, report_id |-> None] }

\* what the agent answers to the two tasks' prompts
ServiceResponses ==
    { Response("raises", "absent", "none", "none", EmptyData),
      Response("object", "absent", "none", "none",
               [EmptyData EXCEPT !.daily_analysis = <<DayItem(7500, TRUE)>>,
                                 !.feedback = List(<<Text("r1")>>)]) }

\* a statement of the session: it returns, or it raises before the commit
\* (nothing is stored), or it raises after it (refresh, lines 100 and 121)
DbOutcomes == {"ok", "raise_before_commit", "raise_after_commit"}

UploadOutcomes == {Str("reports/u/2025/01/report.txt"), Exception("S3ServiceError")}

InitService ==
    /\ entries = <<>>
    /\ analysis = MakeAnalysis(<<>>, <<>>)
    /\ week_start = DateObj(CLOCK_BASE)
    /\ week_end = DateObj(CLOCK_BASE + 6)
    /\ call = NoCall
    /\ ret = << >>
    /\ NoOverlappingCalls
    /\ reports = <<>>
    /\ tasks = [r \in Requests |-> NoTask]

Answer(r, handled) ==
    /\ ret' = handled.response
    /\ reports' = handled.table
    /\ tasks' = [tasks EXCEPT ![r] = IF handled.task = NoTask
                                     THEN [pc |-> "refused"] ELSE handled.task]

\* process_report_request, then background_tasks.add_task
AgentCreate(r) ==
    /\ tasks[r].pc = "none"
    /\ \E body \in CreateBodies :
        /\ call' = [op |-> "process_report_request", evaluation |-> "none"]
        /\ Answer(r, process_report_request(reports, body, DateObj(SERVICE_TODAY)))
    /\ UNCHANGED <<inputs, overlapping>>

CreateReport(r) ==
    /\ tasks[r].pc = "none"
    /\ \E w \in RequestedWeeks :
        /\ call' = [op |-> "create_report", evaluation |-> "none"]
        /\ Answer(r, create_report(reports, [start_date |-> w[1], end_date |-> w[2]]))
    /\ UNCHANGED <<inputs, overlapping>>

\* lines 36-57: the services are constructed, the entries are analysed and
\* the report is generated
TaskBuildReport(r) ==
    /\ tasks[r].pc = "queued"
    /\ \/ \E response \in ServiceResponses :
            LET task   == tasks[r]
                an     == analyze_sentiment(response, task.entries)
                result == generate_report(task.user_id, task.nickname,
                                          task.week_start, task.week_end,
                                          task.entries, an)
            IN  tasks' = [tasks EXCEPT ![r] =
                            [pc |-> "upload", result |-> result, s3_key |-> None]
                            @@ task]
       \/ tasks' = [tasks EXCEPT ![r].pc = "handler",
                                 ![r].failures = @ \cup {"services"}]
    /\ UNCHANGED <<inputs, call, ret, overlapping, reports>>

\* lines 73-82
TaskUpload(r) ==
    /\ tasks[r].pc = "upload"
    /\ \E uploaded \in UploadOutcomes :
        tasks' = [tasks EXCEPT ![r] = after_upload(tasks[r], uploaded)]
    /\ UNCHANGED <<inputs, call, ret, overlapping, reports>>

\* lines 84-94: report_repo.update_report(..., status="completed")
TaskUpdateReport(r) ==
    /\ tasks[r].pc = "update"
    /\ \E db \in DbOutcomes :
        LET task    == tasks[r]
            updated == update_report(reports, task.report_id,
                                     task.result.average_score, task.result.evaluation,
                                     task.result.daily_analysis, task.result.patterns,
                                     task.result.feedback, task.s3_key, "completed")
        IN  /\ reports' = IF db = "raise_before_commit" THEN reports ELSE updated.table
            /\ tasks' = IF db = "ok" THEN [tasks EXCEPT ![r].pc = "email"]
                        ELSE [tasks EXCEPT ![r].pc = "handler",
                                           ![r].failures = @ \cup {"db"}]
    /\ UNCHANGED <<inputs, call, ret, overlapping>>

\* lines 96-102: the notification, whatever it returns or raises
TaskEmail(r) ==
    /\ tasks[r].pc = "email"
    /\ \E sent \in {"True", "False", "raises"} :
        tasks' = [tasks EXCEPT ![r].pc = "done",
                               ![r].failures = IF sent = "True" THEN @
                                               ELSE @ \cup {"email"}]
    /\ UNCHANGED <<inputs, call, ret, overlapping, reports>>

\* lines 104-112: except Exception: update_report_status(report_id, "failed",
\* str(e)) inside try/except: pass; finally db.close()
TaskHandler(r) ==
    /\ tasks[r].pc = "handler"
    /\ \E db \in DbOutcomes :
        LET failed == update_report_status(reports, tasks[r].report_id, "failed",
                                           Str("error"))
        IN  /\ reports' = IF db = "raise_before_commit" THEN reports ELSE failed.table
            /\ tasks' = [tasks EXCEPT ![r].pc = "done",
                                      ![r].failures = IF db = "ok" THEN @
                                                      ELSE @ \cup {"handler"}]
    /\ UNCHANGED <<inputs, call, ret, overlapping>>

NextService ==
    \E r \in Requests :
        \/ AgentCreate(r)
        \/ CreateReport(r)
        \/ TaskBuildReport(r)
        \/ TaskUpload(r)
        \/ TaskUpdateReport(r)
        \/ TaskEmail(r)
        \/ TaskHandler(r)

SpecService == InitService /\ [][NextService]_vars

HasTask(r) == tasks[r].pc \notin {"none", "refused"}

\* C21: every report record a create endpoint has stored, and every result
\* generate_report has produced for it, has week_end = week_start + 6 days.
C21_SevenDayWeek ==
    /\ \A i \in DOMAIN reports :
        reports[i].week_end.day = reports[i].week_start.day + 6
    /\ \A r \in Requests :
        (HasTask(r) /\ "result" \in DOMAIN tasks[r]) =>
            tasks[r].result.week_end.day = tasks[r].result.week_start.day + 6

\* C23: at most one report record exists, and at most one task is in
\* flight, per user and requested week.
C23_OnePerUserWeek ==
    /\ \A i, j \in DOMAIN reports :
        (/\ reports[i].user_id = reports[j].user_id
         /\ reports[i].week_start = reports[j].week_start
         /\ reports[i].week_end = reports[j].week_end) => i = j
    /\ \A r, q \in Requests :
        (/\ HasTask(r) /\ HasTask(q)
         /\ tasks[r].pc # "done" /\ tasks[q].pc # "done"
         /\ tasks[r].user_id = tasks[q].user_id
         /\ tasks[r].week_start = tasks[q].week_start
         /\ tasks[r].week_end = tasks[q].week_end) => r = q

\* C22: a task that has ended with no failure other than the S3 upload's
\* S3ServiceError or the notification's has stored its computed report with
\* status "completed", and with no s3_key when the upload failed.
C22_SecondaryFailuresDoNotBlock ==
    \A r \in Requests :
        (HasTask(r) /\ tasks[r].pc = "done" /\ tasks[r].failures \subseteq {"s3", "email"}) =>
            LET report == reports[tasks[r].report_id]
                result == tasks[r].result
            IN  /\ report.status = "completed"
                /\ report.average_score = result.average_score
                /\ report.evaluation = result.evaluation
                /\ report.daily_analysis = result.daily_analysis
                /\ report.patterns = result.patterns
                /\ report.feedback = result.feedback
                /\ ("s3" \in tasks[r].failures) => report.s3_key = None

C22_Witness ==
    \E r \in Requests :
        /\ HasTask(r) /\ tasks[r].pc = "done"
        /\ tasks[r].failures = {"s3", "email"}
        /\ reports[tasks[r].report_id].status = "completed"
        /\ reports[tasks[r].report_id].s3_key = None

\* C25: the status of a stored report changes only from "processing" to
\* "completed" or from "processing" to "failed".
C25_StatusTransitions ==
    [][\A i \in DOMAIN reports :
        reports'[i].status # reports[i].status =>
            /\ reports[i].status = "processing"
            /\ reports'[i].status \in {"completed", "failed"}]_vars

\* C26: when a background task has run to its end, the record it was added
\* for has the status "completed" or "failed".
C26_TaskEndLeavesProcessing ==
    \A r \in Requests :
        (HasTask(r) /\ tasks[r].pc = "done") =>
            reports[tasks[r].report_id].status \in {"completed", "failed"}

(***************************************************************************)
(* SpecAccess: one request to an endpoint that looks a report up by id,    *)
(* on a table of stored reports.                                           *)
(***************************************************************************)
Requesters == {"user-1", "user-2"}

AccessBodies ==
    [content    : {None, Content(<<"sang", "se">>), Content(<<"mok", "rok", "bo", "gi">>)},
     user_id    : {None} \cup {Str(u) : u \in Requesters},
     start_date : {None},
     end_date   : {None},
     report_id  : {None} \cup {IntValue(n) : n \in 0..(MaxReports + 1)}]

InitAccess ==
    /\ entries = <<>>
    /\ analysis = MakeAnalysis(<<>>, <<>>)
    /\ week_start = DateObj(CLOCK_BASE)
    /\ week_end = DateObj(CLOCK_BASE + 6)
    /\ call = NoCall
    /\ ret = << >>
    /\ NoOverlappingCalls
    /\ reports \in SeqsUpTo(StoredRows, MaxReports)
    /\ tasks = <<>>

Request(op, report_id, user_id) ==
    [op |-> op, by_id |-> TRUE, report_id |-> report_id, user_id |-> user_id]

GetReportStatus ==
    /\ call = NoCall
    /\ \E report_id \in ReportIds, user_id \in Requesters :
        /\ call' = Request("get_report_status", report_id, user_id)
        /\ ret' = get_report_status(reports, report_id, user_id)
    /\ UNCHANGED <<inputs, overlapping, stored>>

GetReportById ==
    /\ call = NoCall
    /\ \E report_id \in ReportIds, user_id \in Requesters :
        /\ call' = Request("get_report_by_id", report_id, user_id)
        /\ ret' = report_get_report_by_id(reports, report_id, user_id)
    /\ UNCHANGED <<inputs, overlapping, stored>>

GetReportFile ==
    /\ call = NoCall
    /\ \E report_id \in ReportIds, user_id \in Requesters, stored_file \in BOOLEAN :
        /\ call' = Request("get_report_file", report_id, user_id)
        /\ ret' = get_report_file(reports, report_id, user_id, stored_file)
    /\ UNCHANGED <<inputs, overlapping, stored>>

GetReportDownloadUrl ==
    /\ call = NoCall
    /\ \E report_id \in ReportIds, user_id \in Requesters, signed \in BOOLEAN :
        /\ call' = Request("get_report_download_url", report_id, user_id)
        /\ ret' = get_report_download_url(reports, report_id, user_id, signed)
    /\ UNCHANGED <<inputs, overlapping, stored>>

\* POST /agent/report with a text whose intent is "detail" or "list"
ProcessReportRequest ==
    /\ call = NoCall
    /\ \E body \in AccessBodies :
        LET by_id == /\ HasContent(body.content)
                     /\ parse_request_intent(body.content.text) = "detail"
                     /\ HasReportId(body.report_id)
                     /\ Truthy(body.user_id)
        IN  /\ call' = [op        |-> "process_report_request",
                        by_id     |-> by_id,
                        report_id |-> IF by_id THEN body.report_id.value ELSE 0,
                        user_id   |-> IF by_id THEN body.user_id.text ELSE "",
                        body      |-> body]
            /\ ret' = process_report_request(reports, body,
                                             DateObj(SERVICE_TODAY)).response
    /\ UNCHANGED <<inputs, overlapping, stored>>

NextAccess ==
    \/ GetReportStatus \/ GetReportById \/ GetReportFile \/ GetReportDownloadUrl
    \/ ProcessReportRequest

SpecAccess == InitAccess /\ [][NextAccess]_vars

\* C30: a request for a report by its id, made with a user_id, is answered
\* 404 when no report has the id, 403 without report data when the report
\* is another user's, and with data of the report only when the report is
\* the requester's.
C30_OwnerOnly ==
    (call.op # "none" /\ call.by_id) =>
        IF call.report_id \notin DOMAIN reports THEN ret.status_code = 404
        ELSE IF reports[call.report_id].user_id # call.user_id
        THEN ret.status_code = 403 /\ ret.data = None
        ELSE ret.status_code \in {200, 404, 500}

=============================================================================
